---- MODULE Spec2Model ----
(***************************************************************************)
(* Model of src/src/components/PathwayEditor.vue: the graph builder (the   *)
(* computed `graph`), the visibility list `hidden` and its toggles.        *)
(***************************************************************************)
EXTENDS Integers, Sequences, FiniteSets, TLC

\* ------------------------------------------------------------------------
\* Bounds of the model
\* ------------------------------------------------------------------------
MaxEvents == 2     \* reaction records in the list handed to the builder
MaxItems == 3      \* input/output entries over the whole list, nothing listed
MaxItemsListed == 2  \* the same, when the visibility list is not empty
MaxHidden == 2     \* entries of the visibility list handed to the builder
MaxListed == 2     \* entries of the visibility list under the list toggle
MaxToggles == 5    \* clicks on list entries in one run

\* ------------------------------------------------------------------------
\* The data the remote source can deliver.  A display name is a sequence of
\* tokens, so that the compartment regular expression has something to parse.
\* ------------------------------------------------------------------------
ReactionIds == {"r1", "r2", "r3"}
CompoundIds == {"a", "b", "c", "a2", "n"}
Ids == ReactionIds \cup CompoundIds

\* r3 has the display name of r1; a2 has the display name of a; n carries no
\* compartment annotation and is named like the reaction r1.
DisplayNameOf ==
  [ r1 |-> <<"R1">>, r2 |-> <<"R2">>, r3 |-> <<"R1">>,
    a  |-> <<"A", "[", "cytosol", "]">>,
    b  |-> <<"B", "[", "cytosol", "]">>,
    c  |-> <<"C", "[", "nucleoplasm", "]">>,
    a2 |-> <<"A", "[", "cytosol", "]">>,
    n  |-> <<"R1">> ]

Names == { DisplayNameOf[i] : i \in Ids }

\* An input/output entry as delivered: a compound record, or something that
\* is not one (a bare number, or null).
CompoundRecord(i) == [kind |-> "object", stId |-> i, displayName |-> DisplayNameOf[i]]
BareNumber == [kind |-> "number", stId |-> "", displayName |-> <<>>]
NullEntry == [kind |-> "null", stId |-> "", displayName |-> <<>>]
Entries == { CompoundRecord(i) : i \in CompoundIds } \cup {BareNumber, NullEntry}

\* ReactomeItem of the visibility list (name/displayName play no part in the
\* builder and are left out).
States == {"show", "hide", "split"}
ItemType(i) == IF i \in ReactionIds THEN "event" ELSE "compound"
ReactomeItem(i, s) == [stId |-> i, type |-> ItemType(i), state |-> s]

\* ------------------------------------------------------------------------
\* getHiddenNode: hidden.value.find((d) => d.stId === node.stId)
\* ------------------------------------------------------------------------
NoItem == [stId |-> "", type |-> "", state |-> "undefined"]

getHiddenNode(hid, stId) ==
  LET idx == { k \in 1..Len(hid) : hid[k].stId = stId }
  IN  IF idx = {} THEN NoItem
      ELSE hid[CHOOSE k \in idx : \A m \in idx : k <= m]

\* typeof compound === 'object' (which null satisfies)
TypeofObject(e) == e.kind \in {"object", "null"}

\* A weaker type test that forgets null, for comparison with IsObject
IsObjectByTypeof(e) == TypeofObject(e)

\* lines 230, 252: typeof compound === 'object' && compound !== null
IsObject(e) == TypeofObject(e) /\ e.kind # "null"

\* compound.displayName.match(/\[(.*?)\]/): null when there is no "[" that
\* is followed by a "]"; otherwise group 1 is the text between the first "["
\* and the first "]" after it.
NoMatch == [found |-> FALSE, group |-> <<>>]

MatchCompartment(name) ==
  LET opens == { i \in 1..Len(name) : name[i] = "[" /\ \E j \in (i+1)..Len(name) : name[j] = "]" }
  IN  IF opens = {} THEN NoMatch
      ELSE LET i == CHOOSE x \in opens : \A y \in opens : x <= y
               closes == { j \in (i+1)..Len(name) : name[j] = "]" }
               j == CHOOSE x \in closes : \A y \in closes : x <= y
           IN  [found |-> TRUE, group |-> SubSeq(name, i + 1, j - 1)]

\* ------------------------------------------------------------------------
\* The builder.  A graph under construction: nodes, links (as indexes into
\* nodes), nodeMap (display name -> index of a node, 0 when absent),
\* eventNode (the node of the record being visited, 0 when the record's
\* callback has returned), threw (a TypeError left the callback: the promise
\* of `graph` rejects and no graph is produced).  nodeEv and linkEv record,
\* for each node and link, the position in the list of the record whose
\* visit pushed it; skipped holds the positions of the records whose
\* callback returned at line 211.
\* ------------------------------------------------------------------------
EmptyGraph ==
  [ nodes |-> <<>>, links |-> <<>>, nodeMap |-> [nm \in Names |-> 0],
    eventNode |-> 0, threw |-> FALSE,
    nodeEv |-> <<>>, linkEv |-> <<>>, skipped |-> {} ]

\* A builder that never consults nodeMap, for comparison with NameTaken
NameTakenNever(g, name) == FALSE

\* line 209: nodeMap[event.displayName] is set
NameTaken(g, name) == g.nodeMap[name] # 0

\* lines 209-227: the head of events.forEach's callback
VisitEvent(g, hid, event, k) ==
  IF ~NameTaken(g, event.displayName)
  THEN IF getHiddenNode(hid, event.stId).state = "hide"
       THEN [g EXCEPT !.eventNode = 0, !.skipped = @ \cup {k}]
       ELSE LET node == [type |-> "event", stId |-> event.stId,
                         displayName |-> event.displayName, compartment |-> <<>>]
                at == Len(g.nodes) + 1
            IN  [g EXCEPT !.nodes = Append(@, node),
                          !.nodeEv = Append(@, k),
                          !.nodeMap[event.displayName] = at,
                          !.eventNode = at]
  ELSE [g EXCEPT !.eventNode = g.nodeMap[event.displayName]]

\* A builder without the hide test, for comparison with IsHiddenCompound
IsHiddenCompoundNever(hid, compound) == FALSE

\* lines 233, 255: getHiddenNode(compound)?.state === "hide"
IsHiddenCompound(hid, compound) == getHiddenNode(hid, compound.stId).state = "hide"

\* The node test without its split disjunct, for comparison with NeedsNode
NeedsNodeUnlessTaken(g, hid, compound) == ~NameTaken(g, compound.displayName)

\* The node test that always creates a node, for comparison with NeedsNode
NeedsNodeAlways(g, hid, compound) == TRUE

\* lines 236, 258: !nodeMap[compound.displayName] || getHiddenNode(compound)?.state === "split"
NeedsNode(g, hid, compound) ==
  \/ ~NameTaken(g, compound.displayName)
  \/ getHiddenNode(hid, compound.stId).state = "split"

\* lines 230-247 and 252-269: what one input or output entry does before its
\* link is pushed.  An entry that got past the type test without being a
\* record (null.stId, or .match of an undefined displayName) is a TypeError.
VisitCompound(g, hid, compound, k) ==
  IF ~IsObject(compound) THEN [graph |-> g, accepted |-> FALSE]
  ELSE IF compound.kind # "object"
  THEN [graph |-> [g EXCEPT !.threw = TRUE], accepted |-> FALSE]
  ELSE IF IsHiddenCompound(hid, compound)
  THEN [graph |-> g, accepted |-> FALSE]
  ELSE IF NeedsNode(g, hid, compound)
  THEN LET m == MatchCompartment(compound.displayName)
       IN  IF ~m.found
           THEN [graph |-> [g EXCEPT !.threw = TRUE], accepted |-> FALSE]
           ELSE LET node == [type |-> "compound", stId |-> compound.stId,
                             displayName |-> compound.displayName,
                             compartment |-> m.group]
                IN  [graph |-> [g EXCEPT !.nodes = Append(@, node),
                                         !.nodeEv = Append(@, k),
                                         !.nodeMap[compound.displayName] = Len(g.nodes) + 1],
                     accepted |-> TRUE]
  ELSE [graph |-> g, accepted |-> TRUE]

\* A push that drops a link already present, for comparison with PushLink
PushLinkOnce(g, src, tgt, k) ==
  IF \E l \in 1..Len(g.links) : g.links[l] = [source |-> src, target |-> tgt]
  THEN g
  ELSE [g EXCEPT !.links = Append(@, [source |-> src, target |-> tgt]),
                 !.linkEv = Append(@, k)]

\* lines 248, 270: links.push({ source, target })
PushLink(g, src, tgt, k) ==
  [g EXCEPT !.links = Append(@, [source |-> src, target |-> tgt]),
            !.linkEv = Append(@, k)]

\* lines 228-249: one iteration of event.input.forEach
VisitInput(g, hid, compound, k) ==
  LET r == VisitCompound(g, hid, compound, k)
  IN  IF ~r.accepted THEN r.graph
      ELSE PushLink(r.graph, r.graph.nodeMap[compound.displayName], g.eventNode, k)

\* An output iteration that directs its link like an input, for comparison
\* with VisitOutput
VisitOutputInward(g, hid, compound, k) ==
  LET r == VisitCompound(g, hid, compound, k)
  IN  IF ~r.accepted THEN r.graph
      ELSE PushLink(r.graph, r.graph.nodeMap[compound.displayName], g.eventNode, k)

\* lines 250-271: one iteration of event.output.forEach
VisitOutput(g, hid, compound, k) ==
  LET r == VisitCompound(g, hid, compound, k)
  IN  IF ~r.accepted THEN r.graph
      ELSE PushLink(r.graph, g.eventNode, r.graph.nodeMap[compound.displayName], k)

\* event.input.forEach / event.output.forEach over a whole list; a TypeError
\* ends the iteration.
RECURSIVE VisitInputs(_, _, _, _)
VisitInputs(g, hid, entries, k) ==
  IF entries = <<>> \/ g.threw THEN g
  ELSE VisitInputs(VisitInput(g, hid, Head(entries), k), hid, Tail(entries), k)

RECURSIVE VisitOutputs(_, _, _, _)
VisitOutputs(g, hid, entries, k) ==
  IF entries = <<>> \/ g.threw THEN g
  ELSE VisitOutputs(VisitOutput(g, hid, Head(entries), k), hid, Tail(entries), k)

\* lines 208-272: the callback of events.forEach on one record
VisitRecord(g, hid, event, k) ==
  LET g1 == VisitEvent(g, hid, event, k)
  IN  IF g1.eventNode = 0 THEN g1
      ELSE VisitOutputs(VisitInputs(g1, hid, event.input, k), hid, event.output, k)

\* lines 198-273: the builder on a whole list of reaction records
RECURSIVE VisitRecords(_, _, _, _)
VisitRecords(g, hid, evs, k) ==
  IF k > Len(evs) \/ g.threw THEN g
  ELSE VisitRecords(VisitRecord(g, hid, evs[k], k), hid, evs, k + 1)

BuildGraph(evs, hid) == VisitRecords(EmptyGraph, hid, evs, 1)

\* ------------------------------------------------------------------------
\* The builder as a state machine.  `events` is the list of reaction records
\* the loop has been handed so far (the list is drawn record by record and
\* entry by entry, each drawn entry being visited at once); `graph` is the
\* builder's state after visiting it, so every state with graph.threw = FALSE
\* holds the value the builder returns for the list `events`.
\* ------------------------------------------------------------------------
\* `origin` is the visibility list as it was at start and `toggles` counts,
\* per entry, the clicks on it since (both only observe the list toggle).
VARIABLES hidden, events, graph, phase, origin, toggles

\* The rest of the component's state (the session: the reactive chain from
\* the pathway list to the rendered diagram, the popup, the gestures).  The
\* builder and the list toggle above are studied with the session at rest.
VARIABLES pathways, params, fetches, builds, micro, dirty, tracksGraph,
          layout, display, cachedPositions, popup, showLabel, gestures, log, acts,
          localStorage

builderVars == <<events, graph, phase, origin, toggles>>

sessionVars == <<pathways, params, fetches, builds, micro, dirty, tracksGraph,
                 layout, display, cachedPositions, popup, showLabel, gestures, log, acts,
                 localStorage>>

vars == <<hidden, builderVars, sessionVars>>

SessionClosed ==
  /\ pathways = <<>>
  /\ params = <<>>
  /\ fetches = <<>>
  /\ builds = <<>>
  /\ micro = <<>>
  /\ dirty = "clean"
  /\ tracksGraph = FALSE
  /\ layout = 0
  /\ display = <<>>
  /\ cachedPositions = <<>>
  /\ popup = <<>>
  /\ showLabel = <<>>
  /\ gestures = <<>>
  /\ log = {}
  /\ acts = 0

SessionAtRest ==
  /\ SessionClosed
  /\ localStorage = <<>>

\* The number of input and output entries of a list of records
ItemCount(evs) ==
  LET RECURSIVE Sum(_)
      Sum(k) == IF k = 0 THEN 0
                ELSE Len(evs[k].input) + Len(evs[k].output) + Sum(k - 1)
  IN  Sum(Len(evs))

\* The size of the record list drawn: up to MaxItems entries with an empty
\* visibility list, up to MaxItemsListed entries with a non-empty one.
ItemBound == IF hidden = <<>> THEN MaxItems ELSE MaxItemsListed

\* A reaction item is never in state split: Split is offered for compounds
\* only (line 694) and updateState moves other items between show and hide.
StatesFor(i) == IF i \in ReactionIds THEN {"show", "hide"} ELSE States

HiddenItems == UNION { { ReactomeItem(i, s) : s \in StatesFor(i) } : i \in Ids }

\* The visibility lists the builder may be handed: at most MaxHidden items.
\* getHiddenNode looks an id up by the first item carrying it, so only the
\* order among items of one id matters: the lists are taken with their ids
\* in the order of IdOrder.
IdOrder == <<"r1", "r2", "r3", "a", "a2", "b", "c", "n">>

IdRank(i) == CHOOSE k \in 1..Len(IdOrder) : IdOrder[k] = i

HiddenLists ==
  UNION { { h \in [1..len -> HiddenItems] :
              \A j \in 1..(len - 1) : IdRank(h[j].stId) <= IdRank(h[j + 1].stId) }
          : len \in 0..MaxHidden }

BuildInit ==
  /\ hidden \in HiddenLists
  /\ events = <<>>
  /\ graph = EmptyGraph
  /\ phase = "start"
  /\ origin = hidden
  /\ toggles = [k \in DOMAIN hidden |-> 0]
  /\ SessionAtRest

\* events.forEach reaches a further record
NextEvent(r) ==
  /\ ~graph.threw
  /\ Len(events) < MaxEvents
  /\ LET event == [stId |-> r, displayName |-> DisplayNameOf[r],
                   input |-> <<>>, output |-> <<>>]
     IN  /\ events' = Append(events, event)
         /\ graph' = VisitEvent(graph, hidden, event, Len(events) + 1)
  /\ phase' = "input"
  /\ UNCHANGED <<hidden, origin, toggles, sessionVars>>

\* event.input.forEach reaches a further entry (not iterated when the
\* record's callback has returned at line 211 or 226)
NextInput(e) ==
  /\ ~graph.threw
  /\ phase = "input"
  /\ ItemCount(events) < ItemBound
  /\ events' = [events EXCEPT ![Len(events)].input = Append(@, e)]
  /\ graph' = IF graph.eventNode = 0 THEN graph
              ELSE VisitInput(graph, hidden, e, Len(events))
  /\ UNCHANGED <<hidden, phase, origin, toggles, sessionVars>>

\* event.output.forEach reaches a further entry
NextOutput(e) ==
  /\ ~graph.threw
  /\ phase \in {"input", "output"}
  /\ ItemCount(events) < ItemBound
  /\ events' = [events EXCEPT ![Len(events)].output = Append(@, e)]
  /\ graph' = IF graph.eventNode = 0 THEN graph
              ELSE VisitOutput(graph, hidden, e, Len(events))
  /\ phase' = "output"
  /\ UNCHANGED <<hidden, origin, toggles, sessionVars>>

BuildNext ==
  \/ \E r \in ReactionIds : NextEvent(r)
  \/ \E e \in Entries : NextInput(e)
  \/ \E e \in Entries : NextOutput(e)

SpecBuild == BuildInit /\ [][BuildNext]_vars

\* ------------------------------------------------------------------------
\* The list toggle (the button of an entry of the Hide / Split list, line 769)
\* ------------------------------------------------------------------------
\* A toggle without the split state, for comparison with updateState
updateStateTwoWay(item) ==
  [item EXCEPT !.state = IF item.state = "hide" THEN "show" ELSE "hide"]

\* A toggle that takes every item through split, for comparison with
\* updateState
updateStateAnyType(item) ==
  [item EXCEPT !.state = IF item.state = "hide" THEN "show"
                         ELSE IF item.state = "show" THEN "split" ELSE "hide"]

\* lines 539-545
updateState(item) ==
  IF item.type = "compound"
  THEN [item EXCEPT !.state = IF item.state = "hide" THEN "show"
                              ELSE IF item.state = "show" THEN "split" ELSE "hide"]
  ELSE [item EXCEPT !.state = IF item.state = "hide" THEN "show" ELSE "hide"]

ToggleLists == UNION { [1..len -> HiddenItems] : len \in 0..MaxListed }

ToggleCount ==
  LET RECURSIVE Sum(_)
      Sum(k) == IF k = 0 THEN 0 ELSE toggles[k] + Sum(k - 1)
  IN  Sum(Len(toggles))

ToggleInit ==
  /\ hidden \in ToggleLists
  /\ origin = hidden
  /\ toggles = [k \in DOMAIN hidden |-> 0]
  /\ events = <<>>
  /\ graph = EmptyGraph
  /\ phase = "start"
  /\ SessionAtRest

\* @click="updateState(item)" on the entry at position k
UpdateState(k) ==
  /\ ToggleCount < MaxToggles
  /\ hidden' = [hidden EXCEPT ![k] = updateState(@)]
  /\ toggles' = [toggles EXCEPT ![k] = @ + 1]
  /\ UNCHANGED <<events, graph, phase, origin, sessionVars>>

ToggleNext == \E k \in DOMAIN hidden : UpdateState(k)

SpecToggle == ToggleInit /\ [][ToggleNext]_vars

\* ------------------------------------------------------------------------
\* Vocabulary of the properties, read off the list `events` and the
\* visibility list, not off the builder.
\* ------------------------------------------------------------------------
StateOf(i) == getHiddenNode(hidden, i).state

EntriesOf(k) == events[k].input \o events[k].output

AllEntries ==
  UNION { { EntriesOf(k)[j] : j \in 1..Len(EntriesOf(k)) } : k \in 1..Len(events) }

WellFormed(e) == e.kind = "object" /\ MatchCompartment(e.displayName).found

Accepted(e) == e.kind = "object" /\ StateOf(e.stId) # "hide"

Visited(k) == k \notin graph.skipped

NodeIdx == 1..Len(graph.nodes)
LinkIdx == 1..Len(graph.links)
EventNodes == { i \in NodeIdx : graph.nodes[i].type = "event" }
CompoundNodes == { i \in NodeIdx : graph.nodes[i].type = "compound" }
NodesNamed(S, nm) == { i \in S : graph.nodes[i].displayName = nm }

\* the occurrences <<record, position>> of entries satisfying P in the
\* records whose callback did not return early
Occurrences(P(_)) ==
  UNION { { <<k, j>> : j \in { x \in 1..Len(EntriesOf(k)) : P(EntriesOf(k)[x]) } }
          : k \in { y \in 1..Len(events) : Visited(y) } }

LinksOfRecord(k) == { l \in LinkIdx : graph.linkEv[l] = k }

\* ------------------------------------------------------------------------
\* C1
\* ------------------------------------------------------------------------
C1_Plain ==
  /\ \A k \in 1..Len(events) : StateOf(events[k].stId) \notin {"hide", "split"}
  /\ \A e \in AllEntries :
       /\ WellFormed(e)
       /\ StateOf(e.stId) \notin {"hide", "split"}
       /\ \A k \in 1..Len(events) : e.displayName # events[k].displayName

C1_NodeOf(nm) == CHOOSE i \in NodeIdx : graph.nodes[i].displayName = nm

C1_LinksOfRecord(k) ==
  [ j \in 1..Len(events[k].input) |->
      [source |-> C1_NodeOf(events[k].input[j].displayName),
       target |-> C1_NodeOf(events[k].displayName)] ]
  \o
  [ j \in 1..Len(events[k].output) |->
      [source |-> C1_NodeOf(events[k].displayName),
       target |-> C1_NodeOf(events[k].output[j].displayName)] ]

RECURSIVE C1_ExpectedLinks(_)
C1_ExpectedLinks(k) ==
  IF k = 0 THEN <<>> ELSE C1_ExpectedLinks(k - 1) \o C1_LinksOfRecord(k)

\* C1: when nothing is hidden or split, every entry is a well-formed compound
\* record and no compound is named like a reaction, the builder returns a
\* graph with exactly one reaction node per reaction display name of the
\* list, exactly one compound node per compound display name of the list, no
\* other node, and exactly one link per input (compound -> reaction) and per
\* output (reaction -> compound), in the order of the list.
C1_OneNodePerNameOneLinkPerEntry ==
  C1_Plain =>
    /\ ~graph.threw
    /\ \A k \in 1..Len(events) :
         Cardinality(NodesNamed(EventNodes, events[k].displayName)) = 1
    /\ \A e \in AllEntries :
         Cardinality(NodesNamed(CompoundNodes, e.displayName)) = 1
    /\ Cardinality(EventNodes) =
         Cardinality({ events[k].displayName : k \in 1..Len(events) })
    /\ Cardinality(CompoundNodes) =
         Cardinality({ e.displayName : e \in AllEntries })
    /\ graph.links = C1_ExpectedLinks(Len(events))

\* one reaction with two inputs and one output, distinct names: 1 reaction
\* node, 3 compound nodes, 3 links of which 2 point to the reaction
C1_Witness ==
  /\ C1_Plain
  /\ Len(events) = 1
  /\ Len(events[1].input) = 2
  /\ Len(events[1].output) = 1
  /\ Cardinality({ e.displayName : e \in AllEntries }) = 3
  /\ Cardinality(EventNodes) = 1
  /\ Cardinality(CompoundNodes) = 3
  /\ Len(graph.links) = 3
  /\ Cardinality({ l \in LinkIdx : graph.links[l].target \in EventNodes }) = 2
  /\ Cardinality({ l \in LinkIdx : graph.links[l].source \in EventNodes }) = 1

\* ------------------------------------------------------------------------
\* C2
\* ------------------------------------------------------------------------
\* C2: in a built graph no node carries the id of a compound whose
\* visibility state is hide, and no link has such a node as source or target.
C2_HiddenCompoundAbsent ==
  ~graph.threw =>
    \A i \in CompoundIds :
      StateOf(i) = "hide" =>
        /\ \A x \in NodeIdx : graph.nodes[x].stId # i
        /\ \A l \in LinkIdx :
             /\ graph.nodes[graph.links[l].source].stId # i
             /\ graph.nodes[graph.links[l].target].stId # i

\* a visited record lists a hidden compound next to an accepted one
C2_Witness ==
  /\ ~graph.threw
  /\ \E k \in 1..Len(events) :
       /\ Visited(k)
       /\ \E j \in 1..Len(EntriesOf(k)) :
            /\ EntriesOf(k)[j].kind = "object"
            /\ StateOf(EntriesOf(k)[j].stId) = "hide"
       /\ LinksOfRecord(k) # {}

\* ------------------------------------------------------------------------
\* C3
\* ------------------------------------------------------------------------
\* C3: a record whose visibility state (looked up by the record's id) is
\* hide leaves no node and no link in the built graph.
C3_HiddenReactionLeavesNothing ==
  ~graph.threw =>
    \A k \in 1..Len(events) :
      StateOf(events[k].stId) = "hide" =>
        /\ \A x \in NodeIdx : graph.nodeEv[x] # k
        /\ LinksOfRecord(k) = {}

\* ------------------------------------------------------------------------
\* C4
\* ------------------------------------------------------------------------
C4_NodesOf(i) == { x \in CompoundNodes : graph.nodes[x].stId = i }

C4_OccurrencesOf(i) == Occurrences(LAMBDA e : e.kind = "object" /\ e.stId = i)

\* C4: in a built graph a compound whose visibility state is split has as
\* many node instances as it has occurrences among the inputs and outputs of
\* the records that were not skipped.
C4_SplitNodePerOccurrence ==
  ~graph.threw =>
    \A i \in CompoundIds :
      StateOf(i) = "split" =>
        Cardinality(C4_NodesOf(i)) = Cardinality(C4_OccurrencesOf(i))

\* a split compound that is an input of two different reactions: 2 nodes
C4_Witness ==
  /\ ~graph.threw
  /\ Len(events) = 2
  /\ events[1].stId # events[2].stId
  /\ \E i \in CompoundIds :
       /\ StateOf(i) = "split"
       /\ \E j \in 1..Len(events[1].input) : events[1].input[j].stId = i
       /\ \E j \in 1..Len(events[2].input) : events[2].input[j].stId = i
       /\ Cardinality(C4_NodesOf(i)) = 2

\* ------------------------------------------------------------------------
\* C5
\* ------------------------------------------------------------------------
\* C5: in a built graph no two reaction nodes have the same display name,
\* and a reaction node was pushed by the first record of its display name
\* that is not hidden; the later records of that name pushed none.
C5_ReactionNodesUniqueByName ==
  ~graph.threw =>
    /\ \A x, y \in EventNodes :
         graph.nodes[x].displayName = graph.nodes[y].displayName => x = y
    /\ \A x \in EventNodes :
         /\ events[graph.nodeEv[x]].displayName = graph.nodes[x].displayName
         /\ events[graph.nodeEv[x]].stId = graph.nodes[x].stId
         /\ \A k \in 1..(graph.nodeEv[x] - 1) :
              events[k].displayName = graph.nodes[x].displayName
                => StateOf(events[k].stId) = "hide"

\* two visited records of one display name share one reaction node
C5_Witness ==
  /\ ~graph.threw
  /\ Len(events) = 2
  /\ events[1].displayName = events[2].displayName
  /\ Visited(1) /\ Visited(2)
  /\ Cardinality(EventNodes) = 1
  /\ LinksOfRecord(1) # {} /\ LinksOfRecord(2) # {}

\* ------------------------------------------------------------------------
\* C6
\* ------------------------------------------------------------------------
C6_NoneSplit(nm) ==
  \A i \in CompoundIds : DisplayNameOf[i] = nm => StateOf(i) # "split"

C7_Appended ==
  LET r == events'[Len(events')]
  IN  IF r.output # events[Len(events)].output
      THEN r.output[Len(r.output)]
      ELSE r.input[Len(r.input)]

\* C7: a step of the builder on an entry that is not an object (a number,
\* null) changes nothing: no node, no link, no rejection; the builder goes on
\* with the next entry from the same nodes, links and nodeMap.
C7_MalformedEntriesSkipped ==
  [][ ( /\ Len(events') = Len(events)
        /\ events' # events
        /\ C7_Appended.kind # "object" )
      => graph' = graph ]_vars

\* a non-object entry heads a record whose next entry, and a later record's
\* entry, still get their links
C7_Witness ==
  /\ ~graph.threw
  /\ Len(events) = 2
  /\ Len(EntriesOf(1)) = 2
  /\ EntriesOf(1)[1].kind # "object"
  /\ LinksOfRecord(1) # {}
  /\ LinksOfRecord(2) # {}
  /\ Len(graph.nodes) >= 3

\* ------------------------------------------------------------------------
\* C8
\* ------------------------------------------------------------------------
\* C8: the builder completes (does not throw or reject) whatever compound
\* display names the list holds, with or without a bracketed compartment.
C8_BuildNeverRejects == ~graph.threw

\* ------------------------------------------------------------------------
\* C9
\* ------------------------------------------------------------------------
C9_AcceptedIn(k) ==
  Cardinality({ j \in 1..Len(EntriesOf(k)) : Accepted(EntriesOf(k)[j]) })

\* C9: in a built graph the link list holds one link per accepted entry:
\* each visited record contributed as many links as it has accepted entries,
\* a skipped record none, whether or not an equal (source, target) pair is
\* already in the list.
C9_OneLinkPerAcceptedEntry ==
  ~graph.threw =>
    /\ \A k \in 1..Len(events) :
         Cardinality(LinksOfRecord(k)) = IF Visited(k) THEN C9_AcceptedIn(k) ELSE 0
    /\ Len(graph.links) = Cardinality(Occurrences(Accepted))

\* two records give the same (source, target) pair, which is listed twice
C9_Witness ==
  /\ ~graph.threw
  /\ \E l, m \in LinkIdx :
       /\ l # m
       /\ graph.links[l] = graph.links[m]
       /\ graph.linkEv[l] # graph.linkEv[m]

\* ------------------------------------------------------------------------
\* C10
\* ------------------------------------------------------------------------
C10_CompoundSucc == [show |-> "split", split |-> "hide", hide |-> "show"]

C10_ReactionSucc == [show |-> "hide", hide |-> "show"]

RECURSIVE C10_After(_, _, _)
C10_After(succ, state, clicks) ==
  IF clicks = 0 THEN state ELSE C10_After(succ, succ[state], clicks - 1)

\* C10: every click on a compound-type entry moves it one step along
\* show -> split -> hide -> show, so after three clicks it is back where it
\* started; every click on a reaction-type entry moves it along
\* show -> hide -> show, so after two clicks it is back; a click changes
\* nothing else of the entry.
C10_ToggleCycles ==
  \A k \in DOMAIN hidden :
    /\ hidden[k].stId = origin[k].stId
    /\ hidden[k].type = origin[k].type
    /\ hidden[k].type = "compound" =>
         /\ hidden[k].state = C10_After(C10_CompoundSucc, origin[k].state, toggles[k])
         /\ toggles[k] = 3 => hidden[k] = origin[k]
    /\ hidden[k].type = "event" =>
         /\ hidden[k].state = C10_After(C10_ReactionSucc, origin[k].state, toggles[k])
         /\ toggles[k] = 2 => hidden[k] = origin[k]

\* a compound entry clicked three times and a reaction entry clicked twice,
\* both started in show
C10_Witness ==
  \E k, m \in DOMAIN hidden :
    /\ hidden[k].type = "compound" /\ origin[k].state = "show" /\ toggles[k] = 3
    /\ hidden[k].state = "show"
    /\ hidden[m].type = "event" /\ origin[m].state = "show" /\ toggles[m] = 2
    /\ hidden[m].state = "show"

\* ------------------------------------------------------------------------
\* The session.  Bounds
\* ------------------------------------------------------------------------
MaxBuilds == 3     \* evaluations of the computed `graph` in one run
MaxFetches == 2    \* evaluations of pathwayObjects/eventObjects in one run
MaxPathways == 2   \* entries of the pathway list
MaxActs == 5       \* user events (clicks, gestures, edits) in one run

\* ------------------------------------------------------------------------
\* What the remote source delivers.  P1 contains the reaction r1 (input a);
\* P2 contains twenty events that are not reactions and then the reaction
\* r2, so that its event records come in two batches.
\* ------------------------------------------------------------------------
PathwayIds == {"P1", "P2"}

OtherEvents ==
  << "x1", "x2", "x3", "x4", "x5", "x6", "x7", "x8", "x9", "x10",
     "x11", "x12", "x13", "x14", "x15", "x16", "x17", "x18", "x19", "x20" >>

\* data/pathway/<id>/containedEvents
ContainedEvents == [ P1 |-> <<"r1">>, P2 |-> OtherEvents \o <<"r2">> ]

\* line 167
chunkSize == 20

\* data/query/ids: the record of one event id, with the pathway attached to
\* it at line 174
EventRecord(id, pathway) ==
  IF id \in ReactionIds
  THEN [stId |-> id, displayName |-> DisplayNameOf[id], className |-> "Reaction",
        input |-> IF id = "r1" THEN <<CompoundRecord("a")>> ELSE <<>>,
        output |-> <<>>, pathway |-> pathway]
  ELSE [stId |-> id, displayName |-> <<id>>, className |-> "BlackBoxEvent",
        input |-> <<>>, output |-> <<>>, pathway |-> pathway]

\* ------------------------------------------------------------------------
\* Parameters (lines 30-64, 76-84, 108-111) and their readers
\* ------------------------------------------------------------------------
DefaultParams ==
  [ nodeSize |-> 70, padding |-> 35, fontSize |-> 8, rounded |-> 0,
    backgroundDisplay |-> "none", compoundColor |-> "none",
    reactionColor |-> "none", interest |-> <<>> ]

ParamValues ==
  [ nodeSize |-> {70, 36}, padding |-> {35, 36}, fontSize |-> {8, 9},
    rounded |-> {0, 1},
    backgroundDisplay |-> {"none", "compartment", "pathway"},
    compoundColor |-> {"none", "compartment"},
    reactionColor |-> {"none", "pathway"},
    interest |-> {<<>>, <<"a">>} ]

\* A `graph` that does not read the padding, for comparison with GraphParams
GraphParamsNodeSizeOnly == {"nodeSize"}

\* lines 194-195: what the computed `graph` reads besides hidden and
\* eventObjects before its first await
GraphParams == {"nodeSize", "padding"}

\* lines 392-397: what the watchEffect of the visual parameters reads
VisualParams ==
  {"fontSize", "rounded", "backgroundDisplay", "compoundColor", "reactionColor",
   "interest"}

\* ------------------------------------------------------------------------
\* Positions and boxes.  Layout and GridRouter (../WebCola) are not part of
\* the component's file; they are taken by their contract.
\* ------------------------------------------------------------------------
Coords == {0, 70}
Cells == { c \in [x : Coords, y : Coords] : c.x = 0 \/ c.y = 0 }
Origin == [x |-> 0, y |-> 0]

NoBounds == [def |-> FALSE, x |-> 0, X |-> 0, y |-> 0, Y |-> 0]
Rectangle(x, X, y, Y) == [def |-> TRUE, x |-> x, X |-> X, y |-> y, Y |-> Y]

Abs(v) == IF v < 0 THEN -v ELSE v

\* two nodes of the given widths centred at their positions intersect
Overlap(n, m) ==
  /\ 2 * Abs(n.x - m.x) < n.width + m.width
  /\ 2 * Abs(n.y - m.y) < n.width + m.width

Overlapping(nodes) ==
  { i \in 1..Len(nodes) : \E j \in 1..Len(nodes) : j # i /\ Overlap(nodes[i], nodes[j]) }

\* Layout.start: the nodes end at positions where no two boxes intersect,
\* each with the box of its width around its position; a node that
\* intersects no other keeps its position.
LayoutResults(nodes) ==
  LET placed(q) == [ i \in 1..Len(nodes) |->
                       [nodes[i] EXCEPT !.x = q[i].x, !.y = q[i].y,
                          !.bounds = Rectangle(q[i].x - nodes[i].width \div 2,
                                               q[i].x + nodes[i].width \div 2,
                                               q[i].y - nodes[i].width \div 2,
                                               q[i].y + nodes[i].width \div 2)] ]
  IN  { placed(q) : q \in
          { r \in [1..Len(nodes) ->
                     Cells \cup { [x |-> nodes[i].x, y |-> nodes[i].y] : i \in 1..Len(nodes) }] :
              /\ \A i \in 1..Len(nodes) :
                   i \notin Overlapping(nodes) => r[i] = [x |-> nodes[i].x, y |-> nodes[i].y]
              /\ Overlapping(placed(r)) = {} } }

\* GridRouter.routeEdges: one route per link, from the box of its source to
\* the box of its target: a straight segment between the facing sides of two
\* boxes in line, else a path of two orthogonal segments from the middle of
\* a side of the one to the middle of a side of the other that enters the
\* interior of no box, and a path between the two centres when there is
\* none (a route is returned in any case).
RouteEdges(nodes, links) ==
  LET Mid(B) == [x |-> (B.x + B.X) \div 2, y |-> (B.y + B.Y) \div 2]
      Min(a, b) == IF a < b THEN a ELSE b
      Max(a, b) == IF a < b THEN b ELSE a
      Enters(p, q, B) ==
        /\ Min(p.x, q.x) < B.X /\ Max(p.x, q.x) > B.x
        /\ Min(p.y, q.y) < B.Y /\ Max(p.y, q.y) > B.y
      Free(path) ==
        \A k \in 1..Len(nodes) : \A t \in 1..(Len(path) - 1) :
          ~Enters(path[t], path[t + 1], nodes[k].bounds)
      \* the middle of the side of B that faces the point c, across or along
      Across(B, c) == [x |-> IF c.x < Mid(B).x THEN B.x ELSE B.X, y |-> Mid(B).y]
      Along(B, c) == [x |-> Mid(B).x, y |-> IF c.y < Mid(B).y THEN B.y ELSE B.Y]
      Route(S, T) ==
        LET s == Mid(S)
            t == Mid(T)
            first == <<Across(S, t), [x |-> t.x, y |-> s.y], Along(T, s)>>
            second == <<Along(S, t), [x |-> s.x, y |-> t.y], Across(T, s)>>
        IN  IF s.y = t.y /\ s.x # t.x /\ Free(<<Across(S, t), Across(T, s)>>)
            THEN <<Across(S, t), Across(T, s)>>
            ELSE IF s.x = t.x /\ s.y # t.y /\ Free(<<Along(S, t), Along(T, s)>>)
            THEN <<Along(S, t), Along(T, s)>>
            ELSE IF s.x # t.x /\ s.y # t.y /\ Free(first) THEN first
            ELSE IF s.x # t.x /\ s.y # t.y /\ Free(second) THEN second
            ELSE <<s, t>>
  IN  [ l \in 1..Len(links) |->
          [from |-> nodes[links[l].source].bounds,
           to |-> nodes[links[l].target].bounds,
           path |-> Route(nodes[links[l].source].bounds,
                          nodes[links[l].target].bounds)] ]

\* line 116: currentNode before any node was chosen (null)
NoNode == [stId |-> "", type |-> ""]

\* The pointers (mouse or touches) that may hold a node.  A gesture belongs
\* to a pointer and to the node it started on; it keeps, for the properties,
\* where its own pointer and node started (e0, n0) and whether one of its
\* moves left the threshold (crossed).
Pointers == {"p1", "p2"}

Idle == [on |-> FALSE, b |-> 0, i |-> 0, e0 |-> Origin, n0 |-> Origin, crossed |-> FALSE]

\* ------------------------------------------------------------------------
\* The persisted settings (lines 30-64, 78-111, 128-148).  localStorage
\* holds, per key, no entry or a text: the characters of a number, the
\* name of a colour mode, or a JSON text given by its opening character, the
\* elements between and its closing character.
\* ------------------------------------------------------------------------
\* `${n}` of lines 137-147: the decimal digits of n
RECURSIVE Digits(_)
Digits(n) ==
  LET chars == <<"0", "1", "2", "3", "4", "5", "6", "7", "8", "9">>
  IN  IF n < 10 THEN <<chars[n + 1]>>
      ELSE Digits(n \div 10) \o <<chars[(n % 10) + 1]>>

\* the unary plus of lines 108-111 on a text: its number, or NaN when a
\* character is not a digit
RECURSIVE ToNumber(_)
ToNumber(text) ==
  LET chars == <<"0", "1", "2", "3", "4", "5", "6", "7", "8", "9">>
      last == text[Len(text)]
      front == ToNumber(SubSeq(text, 1, Len(text) - 1))
  IN  IF text = <<>> THEN [nan |-> FALSE, n |-> 0]
      ELSE IF front.nan \/ \A d \in 1..10 : chars[d] # last THEN [nan |-> TRUE]
      ELSE [nan |-> FALSE,
            n |-> 10 * front.n + (CHOOSE d \in 0..9 : chars[d + 1] = last)]

\* JSON.stringify of a list (lines 129, 132, 135)
stringify(list) == [open |-> "[", body |-> list, close |-> "]"]

\* JSON.parse (lines 80, 91, 99): the list of an array text, an object for
\* an object text, and a SyntaxError for a text that is not JSON
parse(text) ==
  IF text.open = "[" /\ text.close = "]" THEN [threw |-> FALSE, value |-> text.body]
  ELSE IF text.open = "{" /\ text.close = "}"
  THEN [threw |-> FALSE, value |-> [object |-> text.body]]
  ELSE [threw |-> TRUE]

\* what the watchEffect of a key writes (lines 38-40, 50-52, 62-64,
\* 128-148): the identity of an entry of the pathway list is not part of
\* its JSON text
Serialised(key, v) ==
  IF key \in {"fontSize", "nodeSize", "rounded", "padding"} THEN Digits(v)
  ELSE IF key \in {"backgroundDisplay", "compoundColor", "reactionColor"} THEN v
  ELSE IF key = "pathways"
  THEN stringify([k \in 1..Len(v) |->
                    [stId |-> v[k].stId, type |-> v[k].type, state |-> v[k].state,
                     named |-> v[k].named]])
  ELSE stringify(v)

\* A storage that keeps the settings but not the lists, for comparison with
\* setItem
setItemOfSettings(store, key, v) ==
  IF key \in {"pathways", "hidden", "interest"} THEN store
  ELSE [store EXCEPT ![key] = [has |-> TRUE, text |-> Serialised(key, v)]]

\* localStorage.setItem
setItem(store, key, v) ==
  [store EXCEPT ![key] = [has |-> TRUE, text |-> Serialised(key, v)]]

\* the storage once every watchEffect of a key has run
Saved(pw, hid, par) ==
  [ key \in DOMAIN DefaultParams \cup {"pathways", "hidden"} |->
      [has |-> TRUE,
       text |-> Serialised(key, IF key = "pathways" THEN pw
                                ELSE IF key = "hidden" THEN hid
                                ELSE par[key])] ]

\* the initial values of lines 30-36, 43-48, 55-60, 78-111, read from the
\* storage: getItem(key) || default for a colour mode and for a number (a
\* number goes through the unary plus), JSON.parse(getItem(key) || "[]")
\* with [] for a SyntaxError for a list.  An entry of the pathway list is a
\* new object.
Startup(store) ==
  [ key \in DOMAIN store |->
      LET e == store[key]
      IN  IF key \in {"fontSize", "nodeSize", "rounded", "padding"}
          THEN IF ~e.has \/ e.text = <<>> THEN [nan |-> FALSE, n |-> DefaultParams[key]]
               ELSE ToNumber(e.text)
          ELSE IF key \in {"backgroundDisplay", "compoundColor", "reactionColor"}
          THEN IF ~e.has \/ e.text = "" THEN "none" ELSE e.text
          ELSE LET r == parse(IF ~e.has \/ e.text.open = "" THEN stringify(<<>>)
                              ELSE e.text)
               IN  IF r.threw THEN <<>>
                   ELSE IF key = "pathways" /\ e.has /\ e.text.open = "["
                   THEN [k \in 1..Len(r.value) |->
                           [key |-> k, stId |-> r.value[k].stId,
                            type |-> r.value[k].type, state |-> r.value[k].state,
                            named |-> r.value[k].named]]
                   ELSE r.value ]

\* ------------------------------------------------------------------------
\* The reactive chain pathways -> pathwayObjects -> eventObjects -> graph.
\* A computed is evaluated when it is read while dirty; each evaluation of
\* pathwayObjects/eventObjects is an entry of `fetches`, each evaluation of
\* `graph` an entry of `builds` (the promise it returned).  `micro` is the
\* queue of jobs and continuations that run before the next event.
\* ------------------------------------------------------------------------
Task(kind, b) == [kind |-> kind, b |-> b]

\* A pathwayObjects that maps every entry of the list, for comparison with
\* ShownPathways
AllPathways(pw) == pw

\* line 151: pathways.value.filter((pathway) => pathway.state === "show")
ShownPathways(pw) == SelectSeq(pw, LAMBDA p : p.state = "show")

\* lines 150-179: the evaluation of pathwayObjects and eventObjects.  The
\* fetches of the shown pathways are started (the name first, lines 152-156,
\* for an entry whose display name is still its id); with nothing to fetch
\* both promises resolve without a response.  `asked` keeps, for the
\* properties, the list as it was.
NewFetch(pw) ==
  LET sel == ShownPathways(pw)
  IN  [ asked |-> pw, sel |-> sel,
        stage |-> [j \in 1..Len(sel) |-> IF sel[j].named THEN "contained" ELSE "name"],
        got |-> [j \in 1..Len(sel) |-> 0],
        status |-> IF sel = <<>> THEN "resolved" ELSE "pending",
        waiters |-> <<>> ]

NoClosure == [didDrag |-> FALSE, eventStart |-> Origin, nodeStart |-> Origin]

\* lines 192-197: the evaluation of `graph` up to its await of eventObjects;
\* `during` records, for the properties, that an earlier evaluation had not
\* settled yet
NewBuild(f, during) ==
  [ fetch |-> f, status |-> "pending", waiters |-> <<>>, during |-> during,
    nodes |-> <<>>, links |-> <<>>, closure |-> NoClosure ]

\* graph.value read while dirty.  w is the chain: [pathways, fetches,
\* builds, micro, dirty].
Evaluate(w) ==
  LET w1 == IF w.dirty = "fetch"
            THEN [w EXCEPT !.fetches = Append(@, NewFetch(w.pathways))]
            ELSE w
      f == Len(w1.fetches)
      b == Len(w1.builds) + 1
      during == \E k \in 1..Len(w.builds) : w.builds[k].status = "pending"
      w2 == [w1 EXCEPT !.builds = Append(@, NewBuild(f, during)), !.dirty = "clean"]
  IN  IF w2.fetches[f].status = "pending"
      THEN [w2 EXCEPT !.fetches[f].waiters = Append(@, b)]
      ELSE [w2 EXCEPT !.micro = Append(@, Task("loop", b))]

\* await graph.value by a continuation of the given kind (lines 286, 404)
Await(w, kind) ==
  LET w1 == IF w.dirty # "clean" THEN Evaluate(w) ELSE w
      b == Len(w1.builds)
  IN  IF w1.builds[b].status = "pending"
      THEN [w1 EXCEPT !.builds[b].waiters = Append(@, Task(kind, b))]
      ELSE [w1 EXCEPT !.micro = Append(@, Task(kind, b))]

Chain == [pathways |-> pathways, fetches |-> fetches, builds |-> builds,
          micro |-> micro, dirty |-> dirty]

\* the chain with the job or continuation at the head of micro taken off
Rest == [Chain EXCEPT !.micro = Tail(micro)]

\* A change of something the computed `graph` read (hidden, nodeSize,
\* padding: level "graph"; the pathway list: level "fetch"), of something the
\* watchEffect of lines 391-401 read (level "visual"), or of nothing that is
\* read (level "none"): the computeds turn dirty and the watchEffects that
\* read them are queued in the order of their creation.
Changed(w, level, tracks) ==
  LET d == IF level = "fetch" \/ w.dirty = "fetch" THEN "fetch"
           ELSE IF level = "graph" \/ w.dirty = "graph" THEN "graph"
           ELSE "clean"
      jobs == (IF level = "visual" \/ (level \in {"graph", "fetch"} /\ tracks)
               THEN <<Task("visual", 0)>> ELSE <<>>)
              \o (IF level \in {"graph", "fetch"} THEN <<Task("effect", 0)>> ELSE <<>>)
  IN  [w EXCEPT !.dirty = d, !.micro = @ \o jobs]

\* the events an evaluation of eventObjects delivers (lines 163-178): for
\* each pathway the records of the chunks received, in the order of the list
RECURSIVE EventLists(_, _)
EventLists(F, j) ==
  IF j > Len(F.sel) THEN <<>>
  ELSE [ k \in 1..F.got[j] |->
           EventRecord(ContainedEvents[F.sel[j].stId][k], F.sel[j].stId) ]
       \o EventLists(F, j + 1)

\* lines 219-220, 243-244, 265-266: a pushed node starts at the origin
\* unless cachedPositions has an entry under the id of the record being
\* visited
SeedAt(cached, event) == IF cached[event.stId].def THEN cached[event.stId].at ELSE Origin

\* ------------------------------------------------------------------------
\* The session's actions.  A user event or a network response is handled
\* when no job or continuation is left in micro.
\* ------------------------------------------------------------------------
\* The graph of an evaluation is held by the promise while it is the value
\* of the computed (the latest), by a job or continuation that awaits it, by
\* the layout built on it, and by a gesture on one of its nodes.
Held(w, lay, b) ==
  \/ b = lay
  \/ b = Len(w.builds)
  \/ w.builds[b].status = "pending"
  \/ \E t \in 1..Len(w.micro) : w.micro[t].b = b
  \/ \E ptr \in Pointers : gestures[ptr].on /\ gestures[ptr].b = b

\* a graph that nothing holds any more is collected
Collected(w, lay) ==
  [ b \in 1..Len(w.builds) |->
      IF Held(w, lay, b) THEN w.builds[b]
      ELSE [w.builds[b] EXCEPT !.nodes = <<>>, !.links = <<>>, !.closure = NoClosure] ]

SetChainAt(w, lay) ==
  /\ pathways' = w.pathways
  /\ fetches' = w.fetches
  /\ builds' = Collected(w, lay)
  /\ micro' = w.micro
  /\ dirty' = w.dirty

SetChain(w) == SetChainAt(w, layout)

\* a user event; a run has at most MaxActs of them
Act ==
  /\ acts < MaxActs
  /\ acts' = acts + 1

NoCache == [def |-> FALSE, at |-> Origin]

SessionInitWith(pw) ==
  /\ params = DefaultParams
  /\ tracksGraph = FALSE
  /\ layout = 0
  /\ display = [boxes |-> <<>>, routes |-> <<>>]
  /\ cachedPositions = [i \in Ids |-> NoCache]
  /\ popup = [currentNode |-> NoNode, show |-> FALSE]
  /\ showLabel = [i \in Ids |-> "undefined"]
  /\ gestures = [ptr \in Pointers |-> Idle]
  /\ log = {}
  /\ acts = 0
  /\ localStorage = Saved(pw, hidden, DefaultParams)
  /\ LET w == Await([pathways |-> pw, fetches |-> <<>>, builds |-> <<>>,
                     micro |-> <<>>, dirty |-> "fetch"], "layout")
     IN  /\ pathways = w.pathways
         /\ fetches = w.fetches
         /\ builds = w.builds
         /\ micro = w.micro
         /\ dirty = w.dirty

\* A Promise.all that settles with its first response, for comparison with
\* AllOf
AnyOf(stage, S) == \E j \in DOMAIN stage : stage[j] \in S

\* Promise.all (lines 151, 163): every promise of the list has resolved
AllOf(stage, S) == \A j \in DOMAIN stage : stage[j] \in S

\* line 163 resumes when all of pathwayObjects has resolved, and starts the
\* loop of lines 168-175 for every pathway; line 178 is reached when every
\* loop has ended
Advance(F) ==
  LET n(j) == Len(ContainedEvents[F.sel[j].stId])
      F1 == IF AllOf(F.stage, {"listed"})
            THEN [F EXCEPT !.stage = [j \in DOMAIN F.stage |->
                                        IF n(j) = 0 THEN "done" ELSE "batch"]]
            ELSE F
  IN  IF AllOf(F1.stage, {"done"}) THEN [F1 EXCEPT !.status = "resolved"] ELSE F1

\* the continuations of the evaluations of `graph` awaiting eventObjects
\* are queued once it has settled
Settled(w, f) ==
  IF w.fetches[f].status = "pending" THEN w
  ELSE [w EXCEPT !.micro = @ \o [k \in 1..Len(w.fetches[f].waiters) |->
                                     Task("loop", w.fetches[f].waiters[k])],
                 !.fetches[f].waiters = <<>>]

InFlight == {"name", "contained", "batch"}

\* A response whose display name is the id again, for comparison with Named
NamedById(item) == item

\* line 154: the display name of the response is written into the entry
Named(item) == [item EXCEPT !.named = TRUE]

\* lines 153-155: the response to data/query/<id>; the display name is
\* written into the entry, which the latest evaluation of pathwayObjects read
NameResolved(f, j) ==
  /\ micro = <<>>
  /\ fetches[f].stage[j] = "name"
  /\ LET key == fetches[f].sel[j].key
         latest == fetches[Len(fetches)].sel
         read == \E k \in 1..Len(latest) : latest[k].key = key
         unnamed == \E k \in 1..Len(pathways) : pathways[k].key = key /\ ~pathways[k].named
         w1 == [Chain EXCEPT !.pathways = [k \in 1..Len(pathways) |->
                                             IF pathways[k].key = key
                                             THEN Named(pathways[k])
                                             ELSE pathways[k]],
                             !.fetches[f].stage[j] = "contained"]
     IN  /\ (read /\ unnamed) => Len(builds) < MaxBuilds /\ Len(fetches) < MaxFetches
         /\ SetChain(IF read /\ unnamed THEN Changed(w1, "fetch", tracksGraph) ELSE w1)
         /\ localStorage' = setItem(localStorage, "pathways", w1.pathways)
  /\ log' = {}
  /\ UNCHANGED <<hidden, builderVars, params, tracksGraph, layout, display,
                 cachedPositions, popup, showLabel, gestures>>
  /\ UNCHANGED acts

\* line 157-158: the response to data/pathway/<id>/containedEvents
ContainedResolved(f, j) ==
  /\ micro = <<>>
  /\ fetches[f].status = "pending"
  /\ fetches[f].stage[j] = "contained"
  /\ SetChain(Settled([Chain EXCEPT !.fetches[f] =
                         Advance([@ EXCEPT !.stage[j] = "listed"])], f))
  /\ log' = {}
  /\ UNCHANGED <<hidden, builderVars, params, tracksGraph, layout, display,
                 cachedPositions, popup, showLabel, gestures>>
  /\ UNCHANGED <<acts, localStorage>>

\* lines 170-174: the response to data/query/ids for the next chunk
BatchResolved(f, j) ==
  /\ micro = <<>>
  /\ fetches[f].status = "pending"
  /\ fetches[f].stage[j] = "batch"
  /\ LET n == Len(ContainedEvents[fetches[f].sel[j].stId])
         got == fetches[f].got[j] + chunkSize
     IN  SetChain(Settled([Chain EXCEPT !.fetches[f] =
                             Advance([@ EXCEPT !.got[j] = IF got < n THEN got ELSE n,
                                               !.stage[j] = IF got < n THEN "batch" ELSE "done"])],
                          f))
  /\ log' = {}
  /\ UNCHANGED <<hidden, builderVars, params, tracksGraph, layout, display,
                 cachedPositions, popup, showLabel, gestures>>
  /\ UNCHANGED <<acts, localStorage>>

\* a fetch of lines 153, 157 or 170 rejects: Promise.all rejects with it
FetchFails(f, j) ==
  /\ micro = <<>>
  /\ fetches[f].status = "pending"
  /\ fetches[f].stage[j] \in InFlight
  /\ SetChain(Settled([Chain EXCEPT !.fetches[f].stage[j] = "failed",
                                    !.fetches[f].status = "rejected"], f))
  /\ log' = {}
  /\ UNCHANGED <<hidden, builderVars, params, tracksGraph, layout, display,
                 cachedPositions, popup, showLabel, gestures>>
  /\ UNCHANGED <<acts, localStorage>>

\* line 287
margin == 5

\* A box grown by the margin about its centre, for comparison with Shrunk
Grown(node, nodeSize) ==
  LET cx == (node.bounds.X + node.bounds.x) \div 2
      cy == (node.bounds.Y + node.bounds.y) \div 2
      half == (nodeSize + 2 * margin) \div 2
  IN  [node EXCEPT !.bounds = Rectangle(cx - half, cx + half, cy - half, cy + half)]

\* lines 288-295: the box of a node shrunk about its centre
Shrunk(node, nodeSize) ==
  LET cx == (node.bounds.X + node.bounds.x) \div 2
      cy == (node.bounds.Y + node.bounds.y) \div 2
      half == (nodeSize - 2 * margin) \div 2
  IN  [node EXCEPT !.bounds = Rectangle(cx - half, cx + half, cy - half, cy + half)]

\* lines 355-356: cachedPositions[node.stId] = {x, y}, node after node
RECURSIVE Cached(_, _, _)
Cached(cached, nodes, i) ==
  IF i > Len(nodes) THEN cached
  ELSE Cached([cached EXCEPT ![nodes[i].stId] = [def |-> TRUE, at |-> [x |-> nodes[i].x, y |-> nodes[i].y]]],
              nodes, i + 1)

\* the jobs of the two watchEffects (Vue's scheduler) ---------------------

\* lines 403-404: the watchEffect of the graph reads graph.value and awaits
RunEffect ==
  /\ micro # <<>>
  /\ Head(micro).kind = "effect"
  /\ SetChain(Await(Rest, "layout"))
  /\ log' = {}
  /\ UNCHANGED <<hidden, builderVars, params, tracksGraph, layout, display,
                 cachedPositions, popup, showLabel, gestures>>
  /\ UNCHANGED <<acts, localStorage>>

\* lines 283-286: updateGridify up to its await: the settle pass on the
\* current layout, then graph.value is read
UpdateGridify(w, nodes) ==
  Await([w EXCEPT !.builds[layout].nodes = nodes], "gridify")

\* lines 391-401: the watchEffect of the visual parameters; it has read
\* graph.value when it called updateGridify
RunVisual ==
  /\ micro # <<>>
  /\ Head(micro).kind = "visual"
  /\ IF layout = 0
     THEN /\ SetChain(Rest)
          /\ tracksGraph' = FALSE
          /\ log' = {}
     ELSE /\ \E nodes \in LayoutResults(builds[layout].nodes) :
               SetChain(UpdateGridify(Rest, nodes))
          /\ tracksGraph' = TRUE
          /\ log' = {"settle"}
  /\ UNCHANGED <<hidden, builderVars, params, layout, display,
                 cachedPositions, popup, showLabel, gestures>>
  /\ UNCHANGED <<acts, localStorage>>

\* line 197
IsReaction(event) == event.className = "Reaction"

\* lines 197-273: `graph` resumes after eventObjects has settled; the loop
\* runs on the visibility list and node size of that moment, and the
\* promise settles
GraphLoop ==
  /\ micro # <<>>
  /\ Head(micro).kind = "loop"
  /\ LET b == Head(micro).b
         F == fetches[builds[b].fetch]
         evs == SelectSeq(EventLists(F, 1), IsReaction)
         g == BuildGraph(evs, hidden)
         nodes == [ i \in 1..Len(g.nodes) |->
                      [ stId |-> g.nodes[i].stId, type |-> g.nodes[i].type,
                        pathway |-> IF g.nodes[i].type = "event"
                                    THEN evs[g.nodeEv[i]].pathway ELSE "",
                        x |-> SeedAt(cachedPositions, evs[g.nodeEv[i]]).x,
                        y |-> SeedAt(cachedPositions, evs[g.nodeEv[i]]).y,
                        width |-> params.nodeSize,
                        bounds |-> NoBounds ] ]
     IN  IF F.status = "rejected" \/ g.threw
         THEN SetChain([Rest EXCEPT !.builds[b].status = "rejected",
                                    !.builds[b].waiters = <<>>])
         ELSE SetChain([Rest EXCEPT !.builds[b].status = "resolved",
                                    !.builds[b].nodes = nodes,
                                    !.builds[b].links = g.links,
                                    !.builds[b].waiters = <<>>,
                                    !.micro = @ \o builds[b].waiters])
  /\ log' = {"graph"}
  /\ UNCHANGED <<hidden, builderVars, params, tracksGraph, layout, display,
                 cachedPositions, popup, showLabel, gestures>>
  /\ UNCHANGED <<acts, localStorage>>

\* lines 405-448: the watchEffect of the graph resumes with the graph of the
\* promise it awaited: a new Layout, the main pass, the rects, updateGridify
LayoutRun ==
  /\ micro # <<>>
  /\ Head(micro).kind = "layout"
  /\ LET b == Head(micro).b
     IN  IF builds[b].status # "resolved"
         THEN /\ SetChain(Rest)
              /\ log' = {}
              /\ UNCHANGED <<layout, display>>
         ELSE /\ \E nodes \in LayoutResults(builds[b].nodes) :
                   SetChainAt(Await([Rest EXCEPT !.builds[b].nodes = nodes,
                                                 !.builds[b].closure = NoClosure],
                                    "gridify"), b)
              /\ layout' = b
              /\ display' = [boxes |-> [i \in 1..Len(builds[b].nodes) |-> NoBounds],
                             routes |-> <<>>]
              /\ log' = {"Layout", "start", "settle"}
  /\ UNCHANGED <<hidden, builderVars, params, tracksGraph,
                 cachedPositions, popup, showLabel, gestures>>
  /\ UNCHANGED <<acts, localStorage>>

\* A router built before the boxes are shrunk, for comparison with
\* RouterNodes
RouterNodesBefore(before, after) == before

\* lines 297-300: the router is built on layout.nodes() after the forEach of
\* lines 289-295, and reads the bounds of that moment
RouterNodes(before, after) == after

\* lines 287-388: updateGridify resumes with the nodes of the promise it
\* awaited; a node without bounds is a TypeError at line 290
GridifyRun ==
  /\ micro # <<>>
  /\ Head(micro).kind = "gridify"
  /\ LET b == Head(micro).b
         nodes == builds[b].nodes
     IN  IF \/ builds[b].status # "resolved"
            \/ \E i \in 1..Len(nodes) : ~nodes[i].bounds.def
         THEN /\ SetChain(Rest)
              /\ log' = {}
              /\ UNCHANGED <<display, cachedPositions>>
         ELSE LET shrunk == [i \in 1..Len(nodes) |-> Shrunk(nodes[i], params.nodeSize)]
                  w == [Rest EXCEPT !.builds[b].nodes = shrunk]
              IN  /\ SetChain(w)
                  /\ display' = [boxes |-> [i \in 1..Len(w.builds[layout].nodes) |->
                                              w.builds[layout].nodes[i].bounds],
                                 routes |-> RouteEdges(RouterNodes(builds[layout].nodes,
                                                                   w.builds[layout].nodes),
                                                       w.builds[layout].links)]
                  /\ cachedPositions' = Cached(cachedPositions, shrunk, 1)
                  /\ log' = {"route", "render"}
  /\ UNCHANGED <<hidden, builderVars, params, tracksGraph, layout,
                 popup, showLabel, gestures>>
  /\ UNCHANGED <<acts, localStorage>>

\* the pathway list -------------------------------------------------------

PathwayItem(key, p, state, named) ==
  [key |-> key, stId |-> p, type |-> "pathway", state |-> state, named |-> named]

\* entries are objects: a new entry is told from every entry still in the
\* list or still held by an evaluation of pathwayObjects
FreshKey ==
  LET used == { pathways[k].key : k \in 1..Len(pathways) }
              \cup UNION { { fetches[f].sel[j].key : j \in 1..Len(fetches[f].sel) }
                           : f \in 1..Len(fetches) }
  IN  CHOOSE key \in 1..(Cardinality(used) + 1) : key \notin used

CanRebuild == Len(builds) < MaxBuilds

CanRefetch == Len(builds) < MaxBuilds /\ Len(fetches) < MaxFetches

SetPathways(pw) ==
  /\ micro = <<>>
  /\ CanRefetch
  /\ SetChain(Changed([Chain EXCEPT !.pathways = pw], "fetch", tracksGraph))
  /\ localStorage' = setItem(localStorage, "pathways", pw)
  /\ log' = {}
  /\ UNCHANGED <<hidden, builderVars, params, tracksGraph, layout, display,
                 cachedPositions, popup, showLabel, gestures>>
  /\ Act

\* lines 547-556
addPathway(p) ==
  /\ Len(pathways) < MaxPathways
  /\ SetPathways(Append(pathways, PathwayItem(FreshKey, p, "show", FALSE)))

\* lines 558-570: the search result is pushed hidden, under its name
searchPathways(p) ==
  /\ Len(pathways) < MaxPathways
  /\ SetPathways(Append(pathways, PathwayItem(FreshKey, p, "hide", TRUE)))

\* line 756: @click="updateState(item)"
TogglePathway(k) ==
  SetPathways([pathways EXCEPT ![k] = updateState(@)])

\* line 755: @click="pathways.splice(index, 1)"
RemovePathway(k) ==
  SetPathways(SubSeq(pathways, 1, k - 1) \o SubSeq(pathways, k + 1, Len(pathways)))

\* line 752: @click="pathways = []"
RemoveAllPathways == SetPathways(<<>>)

\* parameters -------------------------------------------------------------

\* a slider, a select, or an edit of the interest list (lines 732-736,
\* 776-814)
SetParam(name, v) ==
  /\ micro = <<>>
  /\ v # params[name]
  /\ name \in GraphParams => CanRebuild
  /\ params' = [params EXCEPT ![name] = v]
  /\ SetChain(Changed(Chain, IF name \in GraphParams THEN "graph"
                             ELSE IF name \in VisualParams THEN "visual"
                             ELSE "none", tracksGraph))
  /\ localStorage' = setItem(localStorage, name, v)
  /\ log' = {}
  /\ UNCHANGED <<hidden, builderVars, tracksGraph, layout, display,
                 cachedPositions, popup, showLabel, gestures>>
  /\ Act

\* the visibility list and the popup ---------------------------------------

\* hidden.value changes (an entry's state, or the entries): `graph` read it
SetHidden(hid) ==
  /\ hid # hidden => CanRebuild
  /\ hidden' = hid
  /\ localStorage' = setItem(localStorage, "hidden", hid)
  /\ SetChain(IF hid # hidden THEN Changed(Chain, "graph", tracksGraph) ELSE Chain)

\* A lookup that tries the first entry only, for comparison with FoundAt
FoundAtHead(hid, stId) ==
  IF hid # <<>> /\ hid[1].stId = stId THEN 1 ELSE 0

FoundAt(hid, stId) ==
  LET idx == { k \in 1..Len(hid) : hid[k].stId = stId }
  IN  IF idx = {} THEN 0 ELSE CHOOSE k \in idx : \A m \in idx : k <= m

\* A state written to every entry of the list, for comparison with SetFound
SetFoundAll(hid, k, state) ==
  [m \in 1..Len(hid) |-> [hid[m] EXCEPT !.state = state]]

\* A Merge that takes the entry off the list, for comparison with SetFound
SetFoundOrDrop(hid, k, state) ==
  IF state = "show"
  THEN SubSeq(hid, 1, k - 1) \o SubSeq(hid, k + 1, Len(hid))
  ELSE [hid EXCEPT ![k].state = state]

\* lines 639, 658: found.state = ...
SetFound(hid, k, state) == [hid EXCEPT ![k].state = state]

\* A push that replaces the list, for comparison with PushItem
PushItemAlone(hid, node, state) ==
  <<[stId |-> node.stId, type |-> node.type, state |-> state]>>

\* lines 642-648, 661-667: hidden.value.push({...currentNode, state})
PushItem(hid, node, state) ==
  Append(hid, [stId |-> node.stId, type |-> node.type, state |-> state])

\* lines 632-649
hideNode ==
  /\ micro = <<>>
  /\ popup.show
  /\ popup' = [popup EXCEPT !.show = FALSE]
  /\ IF popup.currentNode = NoNode
     THEN SetHidden(hidden)
     ELSE LET k == FoundAt(hidden, popup.currentNode.stId)
          IN  IF k # 0
              THEN SetHidden(SetFound(hidden, k, "hide"))
              ELSE SetHidden(PushItem(hidden, popup.currentNode, "hide"))
  /\ log' = {}
  /\ UNCHANGED <<builderVars, params, tracksGraph, layout, display,
                 cachedPositions, showLabel, gestures>>
  /\ Act

\* lines 651-668; the button exists for a compound only (line 694)
splitNode ==
  /\ micro = <<>>
  /\ popup.show
  /\ popup.currentNode.type = "compound"
  /\ popup' = [popup EXCEPT !.show = FALSE]
  /\ LET k == FoundAt(hidden, popup.currentNode.stId)
     IN  IF k # 0
         THEN SetHidden(SetFound(hidden, k, IF hidden[k].state = "split"
                                            THEN "show" ELSE "split"))
         ELSE SetHidden(PushItem(hidden, popup.currentNode, "split"))
  /\ log' = {}
  /\ UNCHANGED <<builderVars, params, tracksGraph, layout, display,
                 cachedPositions, showLabel, gestures>>
  /\ Act

\* lines 120-126; an entry of showLabel is "undefined", "true" or "false"
getShowLabelIfSet(labels, d) ==
  labels[d.stId] = "true"

getShowLabel(labels, d) ==
  IF d.type = "compound"
  THEN labels[d.stId] \in {"undefined", "true"}
  ELSE labels[d.stId] = "true"

\* lines 670-676 (and the watchEffect of lines 532-537, which redraws the
\* labels and reads nothing of the chain)
toggleNodeLabel ==
  /\ micro = <<>>
  /\ popup.show
  /\ popup' = [popup EXCEPT !.show = FALSE]
  /\ showLabel' = IF popup.currentNode = NoNode THEN showLabel
                  ELSE [showLabel EXCEPT ![popup.currentNode.stId] =
                          IF getShowLabel(showLabel, popup.currentNode)
                          THEN "false" ELSE "true"]
  /\ log' = {}
  /\ UNCHANGED <<hidden, builderVars, pathways, params, fetches, builds, micro,
                 dirty, tracksGraph, layout, display, cachedPositions, gestures>>
  /\ UNCHANGED localStorage
  /\ Act

\* line 696: @click="showNodePopup = false"
ClosePopup ==
  /\ micro = <<>>
  /\ popup.show
  /\ popup' = [popup EXCEPT !.show = FALSE]
  /\ log' = {}
  /\ UNCHANGED <<hidden, builderVars, pathways, params, fetches, builds, micro,
                 dirty, tracksGraph, layout, display, cachedPositions, showLabel,
                 gestures>>
  /\ UNCHANGED localStorage
  /\ Act

\* line 769: @click="updateState(item)" on the entry at position k
ListToggle(k) ==
  /\ micro = <<>>
  /\ SetHidden([hidden EXCEPT ![k] = updateState(@)])
  /\ log' = {}
  /\ UNCHANGED <<builderVars, params, tracksGraph, layout, display,
                 cachedPositions, popup, showLabel, gestures>>
  /\ Act

\* line 768: @click="hidden.splice(index, 1)"
RemoveHidden(k) ==
  /\ micro = <<>>
  /\ SetHidden(SubSeq(hidden, 1, k - 1) \o SubSeq(hidden, k + 1, Len(hidden)))
  /\ log' = {}
  /\ UNCHANGED <<builderVars, params, tracksGraph, layout, display,
                 cachedPositions, popup, showLabel, gestures>>
  /\ Act

\* gestures (d3.drag on the rects and labels, lines 506-517) ----------------
\* didDrag, eventStart and nodeStart are the variables of lines 450-452, one
\* set per run of lines 405-530.
Point(x, y) == [x |-> x, y |-> y]

\* where a pointer may go down, and where it may be at a move or at its end
StartPts == {Point(0, 0)}
MovePts == {Point(4, 0), Point(35, 0), Point(-36, 0), Point(0, 70)}

SessionMovePts == {Point(4, 0), Point(35, 0), Point(0, 70)}

\* line 478
minDragDistance == 5

\* Math.round(a / b) for b > 0: the nearest integer, halves upwards
Round(a, b) == (2 * a + b) \div (2 * b)

\* A candidate position that follows the pointer without the rounding, for
\* comparison with getDragPos
getDragPosOfPointer(c, e, nodeSize) ==
  [ x |-> c.nodeStart.x + (e.x - c.eventStart.x),
    y |-> c.nodeStart.y + (e.y - c.eventStart.y) ]

\* lines 468-474
getDragPos(c, e, nodeSize) ==
  [ x |-> c.nodeStart.x + Round(e.x - c.eventStart.x, nodeSize) * nodeSize,
    y |-> c.nodeStart.y + Round(e.y - c.eventStart.y, nodeSize) * nodeSize ]

\* A threshold that no position is within, for comparison with Near
NearNowhere(c, p) == FALSE

\* line 479: the candidate position is within the threshold of the start
Near(c, p) ==
  /\ Abs(c.nodeStart.x - p.x) < minDragDistance
  /\ Abs(c.nodeStart.y - p.y) < minDragDistance

\* lines 462-466
Started(c, e, d) ==
  [didDrag |-> FALSE, eventStart |-> e, nodeStart |-> Point(d.x, d.y)]

dragStart(ptr, i, e) ==
  /\ micro = <<>>
  /\ layout # 0
  /\ ~gestures[ptr].on
  /\ i \in 1..Len(display.boxes)
  /\ display.boxes[i].def
  /\ LET d == builds[layout].nodes[i]
     IN  /\ builds' = [builds EXCEPT ![layout].closure = Started(@, e, d)]
         /\ gestures' = [gestures EXCEPT ![ptr] =
                           [on |-> TRUE, b |-> layout, i |-> i, e0 |-> e,
                            n0 |-> Point(d.x, d.y), crossed |-> FALSE]]
  /\ log' = {}
  /\ UNCHANGED <<hidden, builderVars, pathways, params, fetches, micro, dirty,
                 tracksGraph, layout, display, cachedPositions, popup, showLabel>>
  /\ UNCHANGED localStorage
  /\ Act

\* A drag that moves the node without updateGridify, for comparison with
\* Moved
MovedOnly(w, nodes) == [w EXCEPT !.builds[layout].nodes = nodes]

\* line 490: updateGridify() after the node was moved
Moved(w, nodes) == UpdateGridify(w, nodes)

\* lines 476-492
drag(ptr, e) ==
  /\ micro = <<>>
  /\ gestures[ptr].on
  /\ LET g == gestures[ptr]
         c == builds[g.b].closure
         d == builds[g.b].nodes[g.i]
         p == getDragPos(c, e, params.nodeSize)
         own == [eventStart |-> g.e0, nodeStart |-> g.n0]
         crossed == g.crossed \/ ~Near(own, getDragPos(own, e, params.nodeSize))
     IN  /\ gestures' = [gestures EXCEPT ![ptr].crossed = crossed]
         /\ IF ~c.didDrag /\ Near(c, p)
            THEN /\ log' = {}
                 /\ UNCHANGED <<builds, fetches, micro, dirty, pathways>>
            ELSE IF p = Point(d.x, d.y)
            THEN /\ builds' = [builds EXCEPT ![g.b].closure.didDrag = TRUE]
                 /\ log' = {}
                 /\ UNCHANGED <<fetches, micro, dirty, pathways>>
            ELSE /\ LET w == [Chain EXCEPT
                                !.builds[g.b].closure.didDrag = TRUE,
                                !.builds[g.b].nodes[g.i] =
                                   [d EXCEPT !.x = p.x, !.y = p.y,
                                             !.bounds.x = p.x, !.bounds.y = p.y]]
                   IN  \E nodes \in LayoutResults(w.builds[layout].nodes) :
                         SetChain(Moved(w, nodes))
                 /\ log' = {"settle"}
  /\ UNCHANGED <<hidden, builderVars, params, tracksGraph, layout, display,
                 cachedPositions, popup, showLabel>>
  /\ UNCHANGED <<acts, localStorage>>

\* a move of the pointer that takes the node to one of the places of the
\* canvas
OnCanvas(ptr, e) ==
  /\ gestures[ptr].on
  /\ getDragPos(builds[gestures[ptr].b].closure, e, params.nodeSize) \in Cells

\* lines 494-504
dragEnd(ptr) ==
  /\ micro = <<>>
  /\ gestures[ptr].on
  /\ LET g == gestures[ptr]
         d == builds[g.b].nodes[g.i]
     IN  popup' = IF ~builds[g.b].closure.didDrag
                  THEN [currentNode |-> [stId |-> d.stId, type |-> d.type], show |-> TRUE]
                  ELSE popup
  /\ gestures' = [gestures EXCEPT ![ptr] = Idle]
  /\ log' = {}
  /\ UNCHANGED <<hidden, builderVars, pathways, params, fetches, builds, micro,
                 dirty, tracksGraph, layout, display, cachedPositions, showLabel>>
  /\ UNCHANGED <<acts, localStorage>>

\* ------------------------------------------------------------------------
\* The specifications of the session
\* ------------------------------------------------------------------------
BuilderAtRest ==
  /\ events = <<>>
  /\ graph = EmptyGraph
  /\ phase = "start"
  /\ origin = <<>>
  /\ toggles = <<>>

\* the pathway list as the storage may hold it at start (lines 89-95); an
\* entry stored before its name arrived still has its id as display name
StoredPathways ==
  { <<>>,
    <<PathwayItem(1, "P1", "show", FALSE)>>,
    <<PathwayItem(1, "P1", "show", TRUE)>>,
    <<PathwayItem(1, "P1", "show", TRUE), PathwayItem(2, "P2", "show", TRUE)>> }

FetchInit ==
  /\ hidden = <<>>
  /\ BuilderAtRest
  /\ \E pw \in StoredPathways : SessionInitWith(pw)

FetchNext ==
  \/ \E p \in PathwayIds : addPathway(p)
  \/ \E p \in PathwayIds : searchPathways(p)
  \/ \E k \in 1..Len(pathways) : TogglePathway(k)
  \/ \E k \in 1..Len(pathways) : RemovePathway(k)
  \/ RemoveAllPathways
  \/ \E f \in 1..Len(fetches) : \E j \in 1..Len(fetches[f].sel) : NameResolved(f, j)
  \/ \E f \in 1..Len(fetches) : \E j \in 1..Len(fetches[f].sel) : ContainedResolved(f, j)
  \/ \E f \in 1..Len(fetches) : \E j \in 1..Len(fetches[f].sel) : BatchResolved(f, j)
  \/ \E f \in 1..Len(fetches) : \E j \in 1..Len(fetches[f].sel) : FetchFails(f, j)
  \/ \E v \in ParamValues["fontSize"] : SetParam("fontSize", v)
  \/ RunEffect
  \/ RunVisual
  \/ GraphLoop
  \/ LayoutRun
  \/ GridifyRun

SpecFetch == FetchInit /\ [][FetchNext]_vars

\* One pathway, one pointer: the popup, the visibility list, a visual
\* parameter and the drag of a node.
SessionInit ==
  /\ hidden = <<>>
  /\ BuilderAtRest
  /\ SessionInitWith(<<PathwayItem(1, "P1", "show", TRUE)>>)

SessionNext ==
  \/ \E f \in 1..Len(fetches) : \E j \in 1..Len(fetches[f].sel) : ContainedResolved(f, j)
  \/ \E f \in 1..Len(fetches) : \E j \in 1..Len(fetches[f].sel) : BatchResolved(f, j)
  \/ RunEffect
  \/ RunVisual
  \/ GraphLoop
  \/ LayoutRun
  \/ GridifyRun
  \/ hideNode
  \/ splitNode
  \/ toggleNodeLabel
  \/ ClosePopup
  \/ \E k \in 1..Len(hidden) : ListToggle(k)
  \/ \E k \in 1..Len(hidden) : RemoveHidden(k)
  \/ \E v \in ParamValues["fontSize"] : SetParam("fontSize", v)
  \/ \E i \in 1..Len(display.boxes) : dragStart("p1", i, Origin)
  \/ \E e \in SessionMovePts : OnCanvas("p1", e) /\ drag("p1", e)
  \/ dragEnd("p1")

SpecSession == SessionInit /\ [][SessionNext]_vars

\* One pathway laid out, two pointers (touches): the gestures alone.
DragInit ==
  /\ hidden = <<>>
  /\ BuilderAtRest
  /\ SessionInitWith(<<PathwayItem(1, "P1", "show", TRUE)>>)

DragNext ==
  \/ \E f \in 1..Len(fetches) : \E j \in 1..Len(fetches[f].sel) : ContainedResolved(f, j)
  \/ \E f \in 1..Len(fetches) : \E j \in 1..Len(fetches[f].sel) : BatchResolved(f, j)
  \/ GraphLoop
  \/ LayoutRun
  \/ GridifyRun
  \/ \E ptr \in Pointers : \E i \in 1..Len(display.boxes) : \E e \in StartPts :
       dragStart(ptr, i, e)
  \/ \E ptr \in Pointers : \E e \in MovePts : OnCanvas(ptr, e) /\ drag(ptr, e)
  \/ \E ptr \in Pointers : dragEnd(ptr)
  \/ ClosePopup

SpecDrag == DragInit /\ [][DragNext]_vars

\* One pathway and one entry of the visibility list from the storage: the
\* parameters, the list toggle and the pathway toggle.
ParamsInit ==
  /\ hidden = <<ReactomeItem("a", "show")>>
  /\ BuilderAtRest
  /\ SessionInitWith(<<PathwayItem(1, "P1", "show", TRUE)>>)

ParamsNext ==
  \/ \E f \in 1..Len(fetches) : \E j \in 1..Len(fetches[f].sel) : ContainedResolved(f, j)
  \/ \E f \in 1..Len(fetches) : \E j \in 1..Len(fetches[f].sel) : BatchResolved(f, j)
  \/ RunEffect
  \/ RunVisual
  \/ GraphLoop
  \/ LayoutRun
  \/ GridifyRun
  \/ \E name \in DOMAIN ParamValues : \E v \in ParamValues[name] : SetParam(name, v)
  \/ \E k \in 1..Len(hidden) : ListToggle(k)
  \/ \E k \in 1..Len(pathways) : TogglePathway(k)

SpecParams == ParamsInit /\ [][ParamsNext]_vars

\* every evaluation of `graph` has resolved and nothing is left to run
AllResolved ==
  /\ micro = <<>>
  /\ \A b \in 1..Len(builds) : builds[b].status = "resolved"

\* the tab is closed and the page opened again: setup runs on the storage
\* (lines 30-148), nothing else of the session is kept (showLabel of line
\* 118 and cachedPositions of line 190 start empty), and every persistence
\* watchEffect writes its key
Restart ==
  /\ micro = <<>>
  /\ LET s == Startup(localStorage)
         par == [name \in DOMAIN DefaultParams |->
                   IF name \in {"fontSize", "nodeSize", "rounded", "padding"}
                   THEN s[name].n ELSE s[name]]
         w == Await([pathways |-> s["pathways"], fetches |-> <<>>, builds |-> <<>>,
                     micro |-> <<>>, dirty |-> "fetch"], "layout")
     IN  /\ params' = par
         /\ hidden' = s["hidden"]
         /\ pathways' = w.pathways
         /\ fetches' = w.fetches
         /\ builds' = w.builds
         /\ micro' = w.micro
         /\ dirty' = w.dirty
         /\ localStorage' = Saved(s["pathways"], s["hidden"], par)
  /\ tracksGraph' = FALSE
  /\ layout' = 0
  /\ display' = [boxes |-> <<>>, routes |-> <<>>]
  /\ cachedPositions' = [i \in Ids |-> NoCache]
  /\ popup' = [currentNode |-> NoNode, show |-> FALSE]
  /\ showLabel' = [i \in Ids |-> "undefined"]
  /\ gestures' = [ptr \in Pointers |-> Idle]
  /\ log' = {"setup"}
  /\ UNCHANGED builderVars
  /\ Act

\* One pathway from the storage, one pointer: every setting is changed, the
\* popup hides a node and toggles a label, and the page is opened again; the
\* user acts on a diagram that is up to date.
\* the user events of a run of SpecStore
MaxStoreActs == 3

StoreInit ==
  /\ hidden = <<>>
  /\ BuilderAtRest
  /\ SessionInitWith(<<PathwayItem(1, "P1", "show", TRUE)>>)

StoreNext ==
  \/ \E f \in 1..Len(fetches) : \E j \in 1..Len(fetches[f].sel) : ContainedResolved(f, j)
  \/ \E f \in 1..Len(fetches) : \E j \in 1..Len(fetches[f].sel) : BatchResolved(f, j)
  \/ RunEffect
  \/ RunVisual
  \/ GraphLoop
  \/ LayoutRun
  \/ GridifyRun
  \/ /\ AllResolved
     /\ acts < MaxStoreActs
     /\ \/ \E name \in DOMAIN ParamValues : \E v \in ParamValues[name] : SetParam(name, v)
        \/ \E i \in 1..Len(display.boxes) : \E e \in StartPts : dragStart("p1", i, e)
        \/ dragEnd("p1")
        \/ hideNode
        \/ toggleNodeLabel
        \/ \E k \in 1..Len(hidden) : ListToggle(k)
        \/ \E k \in 1..Len(pathways) : TogglePathway(k)
        \/ Restart

SpecStore == StoreInit /\ [][StoreNext]_vars

\* setup alone (lines 30-111): the refs are created on what the storage
\* holds
Setup ==
  /\ log = {}
  /\ LET s == Startup(localStorage)
     IN  /\ params' = [name \in DOMAIN DefaultParams |-> s[name]]
         /\ pathways' = s["pathways"]
         /\ hidden' = s["hidden"]
  /\ log' = {"setup"}
  /\ UNCHANGED <<builderVars, fetches, builds, micro, dirty, tracksGraph, layout,
                 display, cachedPositions, popup, showLabel, gestures, acts,
                 localStorage>>

\* what the storage may hold under a key when the page is opened: nothing,
\* a text the program wrote, or another text (letters for a number, the name
\* of no colour mode, a JSON text cut short, the JSON text of an object)
StoredTexts(key) ==
  LET text(t) == [has |-> TRUE, text |-> t]
  IN  {[has |-> FALSE]} \cup
      IF key \in {"fontSize", "nodeSize"}
      THEN {text(Digits(9)), text(<<"a", "b", "c">>)}
      ELSE IF key \in {"rounded", "padding"}
      THEN {text(<<"1", "x">>)}
      ELSE IF key \in {"backgroundDisplay", "reactionColor"}
      THEN {text("pathway"), text("purple")}
      ELSE IF key = "compoundColor"
      THEN {text("purple")}
      ELSE IF key = "interest"
      THEN {text(stringify(<<"a">>)), text([open |-> "{", body |-> <<>>, close |-> "}"])}
      ELSE IF key = "pathways"
      THEN {text(Serialised(key, <<PathwayItem(1, "P1", "show", TRUE)>>)),
            text([open |-> "[", body |-> <<>>, close |-> ""]),
            text([open |-> "{", body |-> <<>>, close |-> "}"])}
      ELSE {text(stringify(<<ReactomeItem("a", "hide")>>)),
            text([open |-> "[", body |-> <<>>, close |-> ""]),
            text([open |-> "{", body |-> <<>>, close |-> "}"])}

StartupInit ==
  /\ hidden = <<>>
  /\ BuilderAtRest
  /\ SessionClosed
  /\ localStorage \in
       [ fontSize : StoredTexts("fontSize"), nodeSize : StoredTexts("nodeSize"),
         rounded : StoredTexts("rounded"), padding : StoredTexts("padding"),
         backgroundDisplay : StoredTexts("backgroundDisplay"),
         compoundColor : StoredTexts("compoundColor"),
         reactionColor : StoredTexts("reactionColor"),
         interest : StoredTexts("interest"), pathways : StoredTexts("pathways"),
         hidden : StoredTexts("hidden") ]

SpecStartup == StartupInit /\ [][Setup]_vars

\* One pathway with a single node, one pointer: the node is dragged
\* anywhere, under node sizes from both ends of the slider (line 776).
SnapPts == {Point(-55, 0), Point(4, 0), Point(18, 18), Point(50, 0), Point(105, 35)}

SnapInit ==
  /\ hidden = <<>>
  /\ BuilderAtRest
  /\ SessionInitWith(<<PathwayItem(1, "P2", "show", TRUE)>>)

SnapNext ==
  \/ \E f \in 1..Len(fetches) : \E j \in 1..Len(fetches[f].sel) : ContainedResolved(f, j)
  \/ \E f \in 1..Len(fetches) : \E j \in 1..Len(fetches[f].sel) : BatchResolved(f, j)
  \/ RunEffect
  \/ GraphLoop
  \/ LayoutRun
  \/ GridifyRun
  \/ \E v \in {10, 100} : SetParam("nodeSize", v)
  \/ \E i \in 1..Len(display.boxes) : \E e \in StartPts : dragStart("p1", i, e)
  \/ \E e \in SnapPts : drag("p1", e)
  \/ dragEnd("p1")

SpecSnap == SnapInit /\ [][SnapNext]_vars

\* A pathway registered by its id, as the storage holds it: the responses
\* arrive and the jobs run, and the user does nothing.
NameInit ==
  /\ hidden = <<>>
  /\ BuilderAtRest
  /\ \E p \in PathwayIds : \E s \in {"show", "hide"} :
       SessionInitWith(<<PathwayItem(1, p, s, FALSE)>>)

NameNext ==
  \/ \E f \in 1..Len(fetches) : \E j \in 1..Len(fetches[f].sel) : NameResolved(f, j)
  \/ \E f \in 1..Len(fetches) : \E j \in 1..Len(fetches[f].sel) : ContainedResolved(f, j)
  \/ \E f \in 1..Len(fetches) : \E j \in 1..Len(fetches[f].sel) : BatchResolved(f, j)
  \/ RunEffect
  \/ GraphLoop
  \/ LayoutRun
  \/ GridifyRun

\* every response arrives and every queued job runs
SpecName == NameInit /\ [][NameNext]_vars /\ WF_vars(NameNext)

\* ------------------------------------------------------------------------
\* The visibility list under the popup
\* ------------------------------------------------------------------------

\* C11: Hide or Split in the popup on a node that has no entry in the
\* visibility list appends exactly one entry for that node, with state hide
\* for Hide and split for Split, and leaves the entries already in the list
\* as they were.
C11_PopupAppendsOneEntry ==
  [][ /\ (hideNode /\ FoundAt(hidden, popup.currentNode.stId) = 0) =>
           /\ Len(hidden') = Len(hidden) + 1
           /\ SubSeq(hidden', 1, Len(hidden)) = hidden
           /\ hidden'[Len(hidden')].stId = popup.currentNode.stId
           /\ hidden'[Len(hidden')].state = "hide"
      /\ (splitNode /\ FoundAt(hidden, popup.currentNode.stId) = 0) =>
           /\ Len(hidden') = Len(hidden) + 1
           /\ SubSeq(hidden', 1, Len(hidden)) = hidden
           /\ hidden'[Len(hidden')].stId = popup.currentNode.stId
           /\ hidden'[Len(hidden')].state = "split" ]_vars

\* Split on the compound, then Hide on the reaction: each was appended to
\* the list as it stood
C11_Witness ==
  /\ Len(hidden) = 2
  /\ hidden[1] = [stId |-> "a", type |-> "compound", state |-> "split"]
  /\ hidden[2] = [stId |-> "r1", type |-> "event", state |-> "hide"]

\* C12: an entry of the visibility list stays in the list, at its place and
\* for its node, through every step of the session (Hide, Split, the list
\* toggle, the label toggle, a drag, a change of a parameter, a rebuild of
\* the graph); only the remove button of an entry takes an entry off the list.
C12_EntriesStayUntilRemoved ==
  [][ \/ \E k \in 1..Len(hidden) : RemoveHidden(k)
      \/ /\ Len(hidden') >= Len(hidden)
         /\ \A k \in 1..Len(hidden) :
              /\ hidden'[k].stId = hidden[k].stId
              /\ hidden'[k].type = hidden[k].type ]_vars

\* the entry of the compound after Split, Merge and a change of the font
\* size, with the graph rebuilt twice
C12_Witness ==
  /\ hidden = <<[stId |-> "a", type |-> "compound", state |-> "show"]>>
  /\ params.fontSize = 9
  /\ Len(builds) = 3
  /\ layout = 3

\* ------------------------------------------------------------------------
\* Builds in flight
\* ------------------------------------------------------------------------

\* C13: when a build was requested while an earlier one was in flight and
\* both have resolved, the layout, the rendered nodes and the routes are
\* those of the later request, whatever the order of the responses.
C13_LatestRequestWins ==
  (AllResolved /\ Len(builds) = 2 /\ builds[2].during) =>
     /\ layout = 2
     /\ Len(display.boxes) = Len(builds[2].nodes)
     /\ display.routes = RouteEdges(builds[2].nodes, builds[2].links)

\* the pathway p has an entry in state show in the list pw
ShownIn(pw, p) == \E k \in 1..Len(pw) : pw[k].stId = p /\ pw[k].state = "show"

\* C14: every reaction node of a built graph comes from a pathway whose
\* entry had state show in the pathway list the build was requested for;
\* hidden and removed pathways contribute nothing, and the current graph
\* holds no node of a pathway that is not shown in the current list.
C14_NodesFromShownPathways ==
  /\ \A b \in 1..Len(builds) : \A i \in 1..Len(builds[b].nodes) :
       builds[b].nodes[i].type = "event" =>
         ShownIn(fetches[builds[b].fetch].asked, builds[b].nodes[i].pathway)
  /\ dirty = "clean" =>
       \A i \in 1..Len(builds[Len(builds)].nodes) :
         builds[Len(builds)].nodes[i].type = "event" =>
           ShownIn(pathways, builds[Len(builds)].nodes[i].pathway)

\* P2 was shown when the page started and is hidden now; the responses for
\* both requests have arrived and the second graph is laid out
C14_Witness ==
  /\ Len(pathways) = 2
  /\ pathways[2].stId = "P2"
  /\ pathways[2].state = "hide"
  /\ Len(fetches) = 2
  /\ fetches[1].status = "resolved"
  /\ ShownIn(fetches[1].asked, "P2")
  /\ layout = 2
  /\ builds[2].status = "resolved"
  /\ \E i \in 1..Len(builds[2].nodes) : builds[2].nodes[i].type = "event"

\* C15: the loop of a build runs only when the containedEvents fetch and
\* every batch fetch of every shown pathway have resolved, and the graph it
\* produces has a node for every reaction of every shown pathway: no graph
\* is made from a part of the responses.
C15_LoopAfterEveryFetch ==
  [][ \A b \in 1..Len(builds) :
        (builds[b].status = "pending" /\ builds'[b].status = "resolved") =>
          LET F == fetches[builds[b].fetch]
          IN  \A j \in 1..Len(F.sel) :
                LET evs == ContainedEvents[F.sel[j].stId]
                IN  /\ F.stage[j] = "done"
                    /\ F.got[j] = Len(evs)
                    /\ \A k \in 1..Len(evs) :
                         IsReaction(EventRecord(evs[k], F.sel[j].stId)) =>
                           \E i \in 1..Len(builds'[b].nodes) :
                             builds'[b].nodes[i].stId = evs[k] ]_vars

\* a graph of two shown pathways, the second delivered in two batches
C15_Witness ==
  \E b \in 1..Len(builds) :
    /\ builds[b].status = "resolved"
    /\ Len(fetches[builds[b].fetch].sel) = 2
    /\ fetches[builds[b].fetch].got[2] = chunkSize + 1
    /\ \E i \in 1..Len(builds[b].nodes) : builds[b].nodes[i].stId = "r2"
    /\ \E i \in 1..Len(builds[b].nodes) : builds[b].nodes[i].stId = "r1"

\* C16: when a fetch for one shown pathway has failed, the build still
\* completes, with the events of the other shown pathways in its graph.
C16_FailedFetchDoesNotBlock ==
  \A b \in 1..Len(builds) :
    LET F == fetches[builds[b].fetch]
    IN  ( /\ builds[b].status # "pending"
          /\ \E j \in 1..Len(F.sel) : F.stage[j] = "failed" ) =>
        /\ builds[b].status = "resolved"
        /\ \A j \in 1..Len(F.sel) :
             (F.stage[j] # "failed" /\ F.sel[j].stId = "P1") =>
               \E i \in 1..Len(builds[b].nodes) : builds[b].nodes[i].stId = "r1"

\* ------------------------------------------------------------------------
\* Gestures
\* ------------------------------------------------------------------------

\* C17: when a gesture on a node ends, the popup opens with that node as the
\* current node if no move of the gesture crossed the drag threshold, and
\* the popup and the current node are left as they were if one did.
C17_PopupIffNoDrag ==
  [][ \A ptr \in Pointers :
        (gestures[ptr].on /\ ~gestures'[ptr].on) =>
          LET g == gestures[ptr]
              d == builds[g.b].nodes[g.i]
          IN  IF g.crossed
              THEN popup' = popup
              ELSE popup' = [currentNode |-> [stId |-> d.stId, type |-> d.type],
                             show |-> TRUE] ]_vars

\* C18: when a drag has ended, no gesture is on and nothing is left to run,
\* every displayed box is the box of its node around the node's position,
\* no two boxes intersect, and every edge has the route computed from the
\* boxes of its ends.
C18_ReleasedGeometryUpToDate ==
  ( /\ micro = <<>>
    /\ layout # 0
    /\ \A ptr \in Pointers : ~gestures[ptr].on
    /\ builds[layout].closure.didDrag ) =>
    LET nodes == builds[layout].nodes
        boxes == display.boxes
    IN  /\ Len(boxes) = Len(nodes)
        /\ \A i \in 1..Len(nodes) :
             /\ boxes[i].def
             /\ boxes[i] = nodes[i].bounds
             /\ boxes[i].x + boxes[i].X = 2 * nodes[i].x
             /\ boxes[i].y + boxes[i].Y = 2 * nodes[i].y
        /\ \A i, j \in 1..Len(boxes) :
             i # j => \/ boxes[i].X <= boxes[j].x
                      \/ boxes[j].X <= boxes[i].x
                      \/ boxes[i].Y <= boxes[j].y
                      \/ boxes[j].Y <= boxes[i].y
        /\ Len(display.routes) = Len(builds[layout].links)
        /\ display.routes = RouteEdges(nodes, builds[layout].links)

\* a drag has ended and the re-route has run; the node that was held has
\* left the place where it started, so that no node is there any more
C18_Witness ==
  /\ micro = <<>>
  /\ layout # 0
  /\ \A ptr \in Pointers : ~gestures[ptr].on
  /\ builds[layout].closure.didDrag
  /\ Len(display.routes) = 1
  /\ \A i \in 1..Len(builds[layout].nodes) :
       Point(builds[layout].nodes[i].x, builds[layout].nodes[i].y)
         # builds[layout].closure.nodeStart

\* ------------------------------------------------------------------------
\* What a change recomputes
\* ------------------------------------------------------------------------

\* a continuation of updateGridify is queued or waits for the latest graph
GridifyPending(bs, mq) ==
  \/ \E t \in 1..Len(mq) : mq[t] = Task("gridify", Len(bs))
  \/ \E t \in 1..Len(bs[Len(bs)].waiters) : bs[Len(bs)].waiters[t] = Task("gridify", Len(bs))

\* C19: a change of the font size, the roundedness, a colour mode or the
\* interest list requests no graph and constructs no Layout: its job settles
\* the existing layout and goes on to route and render.  A change of the
\* state of a visibility entry, of the node size, of the padding or of the
\* shown pathways leaves `graph` to be evaluated anew and queues the job that
\* awaits it; the evaluation is a new request, and the graph, once resolved,
\* gets a new Layout with the main pass, followed by routing.
C19_VisualReroutesGraphRebuilds ==
  [][ /\ (\E name \in {"fontSize", "rounded", "backgroundDisplay", "compoundColor",
                       "reactionColor", "interest"} :
            \E v \in ParamValues[name] : SetParam(name, v)) =>
           /\ builds' = builds
           /\ dirty' = "clean"
           /\ layout' = layout
           /\ micro' = <<Task("visual", 0)>>
      /\ (RunVisual /\ micro = <<Task("visual", 0)>> /\ layout # 0) =>
           /\ Len(builds') = Len(builds)
           /\ layout' = layout
           /\ log' = {"settle"}
           /\ GridifyPending(builds', micro')
      /\ (GridifyRun /\ display' # display) => log' = {"route", "render"}
      /\ ( \/ \E name \in {"nodeSize", "padding"} :
                \E v \in ParamValues[name] : SetParam(name, v)
           \/ \E k \in 1..Len(hidden) : ListToggle(k)
           \/ \E k \in 1..Len(pathways) : TogglePathway(k) ) =>
           /\ dirty' # "clean"
           /\ micro'[Len(micro')] = Task("effect", 0)
      /\ (dirty # "clean" /\ dirty' = "clean") => Len(builds') = Len(builds) + 1
      /\ RunEffect =>
           /\ dirty' = "clean"
           /\ \/ \E t \in 1..Len(micro') : micro'[t] = Task("layout", Len(builds'))
              \/ \E t \in 1..Len(builds'[Len(builds')].waiters) :
                   builds'[Len(builds')].waiters[t] = Task("layout", Len(builds'))
      /\ (LayoutRun /\ builds[Head(micro).b].status = "resolved") =>
           /\ layout' = Head(micro).b
           /\ log' = {"Layout", "start", "settle"}
           /\ GridifyPending(builds', micro') ]_vars

\* the font size was changed, then the node size: one graph was requested
\* for the two changes, and it is laid out, routed and rendered
C19_Witness ==
  /\ params.fontSize = 9
  /\ params.nodeSize = 36
  /\ Len(builds) = 2
  /\ layout = 2
  /\ micro = <<>>
  /\ log = {"route", "render"}

\* C20: every node of a rebuilt graph whose own identity has a recorded
\* position in the cache is seeded at that position.
C20_SeededAtOwnCachedPosition ==
  [][ \A b \in 1..Len(builds) :
        (builds[b].status = "pending" /\ builds'[b].status = "resolved") =>
          \A i \in 1..Len(builds'[b].nodes) :
            LET node == builds'[b].nodes[i]
            IN  cachedPositions[node.stId].def =>
                  Point(node.x, node.y) = cachedPositions[node.stId].at ]_vars


\* ---------------------------------------------------------------------
\* Labels, persisted settings, settle passes, drag frames and the name
\* fetch (claims C21..C30)
\* ---------------------------------------------------------------------

\* the visibility the words of C21 give a label: the override of the node's
\* id when there is one, and otherwise visible exactly for a compound
EffectiveLabel(labels, d) ==
  IF labels[d.stId] = "undefined" THEN d.type = "compound"
  ELSE labels[d.stId] = "true"

\* C21: a node without a label override shows its label iff it is a
\* compound; the label toggle sets the override of the current node's id to
\* the negation of its effective visibility, leaves every other override
\* unchanged, and so a second toggle restores the effective visibility.
C21_LabelDefaultAndToggle ==
  [][ /\ \A b \in 1..Len(builds) : \A i \in 1..Len(builds[b].nodes) :
           LET d == builds[b].nodes[i]
           IN  getShowLabel(showLabel, d) = EffectiveLabel(showLabel, d)
      /\ (toggleNodeLabel /\ popup.currentNode # NoNode) =>
           LET d == popup.currentNode
           IN  /\ showLabel'[d.stId] =
                    (IF EffectiveLabel(showLabel, d) THEN "false" ELSE "true")
               /\ \A i \in Ids \ {d.stId} : showLabel'[i] = showLabel[i]
               /\ getShowLabel(showLabel', d) = ~getShowLabel(showLabel, d)
    ]_vars

\* a compound was toggled twice and shows its label again, now by an
\* override, while the other nodes have none
C21_Witness ==
  \E b \in 1..Len(builds) : \E i \in 1..Len(builds[b].nodes) :
    LET d == builds[b].nodes[i]
    IN  /\ d.type = "compound"
        /\ showLabel[d.stId] = "true"
        /\ getShowLabel(showLabel, d)
        /\ \A j \in Ids \ {d.stId} : showLabel[j] = "undefined"

\* C22: an override the label toggle has set is still in force after the
\* page was closed and opened again: the label of that id is visible after
\* the restart iff it was before.
C22_LabelOverrideSurvivesRestart ==
  [][ Restart =>
        \A b \in 1..Len(builds) : \A i \in 1..Len(builds[b].nodes) :
          LET d == builds[b].nodes[i]
          IN  showLabel[d.stId] # "undefined" =>
                getShowLabel(showLabel', d) = getShowLabel(showLabel, d) ]_vars

\* C23: between events, the storage holds under every key the text of the
\* value in memory, and setup reads the value in memory back from it.
C23_StorageFollowsSettings ==
  LET s == Startup(localStorage)
  IN  /\ \A key \in {"fontSize", "nodeSize", "rounded", "padding"} :
           /\ localStorage[key] = [has |-> TRUE, text |-> Digits(params[key])]
           /\ s[key] = [nan |-> FALSE, n |-> params[key]]
      /\ \A key \in {"backgroundDisplay", "compoundColor", "reactionColor"} :
           /\ localStorage[key] = [has |-> TRUE, text |-> params[key]]
           /\ s[key] = params[key]
      /\ localStorage["interest"].has /\ s["interest"] = params.interest
      /\ localStorage["hidden"].has /\ s["hidden"] = hidden
      /\ localStorage["pathways"].has
      /\ Len(s["pathways"]) = Len(pathways)
      /\ \A k \in 1..Len(pathways) :
           s["pathways"][k] = [pathways[k] EXCEPT !.key = k]

\* the node size and a colour mode were changed, the page was opened again
\* on them, and its first graph is rendered
C23_Witness ==
  /\ params.nodeSize = 36
  /\ params.reactionColor = "pathway"
  /\ localStorage["nodeSize"].text = <<"3", "6">>
  /\ Len(builds) = 1
  /\ layout = 1
  /\ log = {"route", "render"}

\* C24: whatever the storage holds, a key whose text is not the text of a
\* value of its field's type (a number, one of the colour modes, a list)
\* gives the field its default at setup: 8, 70, 35 and 0, "none", the empty
\* list.
C24_CorruptTextYieldsDefault ==
  log = {"setup"} =>
    /\ \A key \in {"fontSize", "nodeSize", "rounded", "padding"} :
         LET e == localStorage[key]
         IN  (e.has /\ \E k \in 1..Len(e.text) :
                         e.text[k] \notin {"0", "1", "2", "3", "4", "5", "6", "7", "8", "9"})
               => params[key] = [nan |-> FALSE, n |-> DefaultParams[key]]
    /\ \A key \in {"backgroundDisplay", "compoundColor", "reactionColor"} :
         LET e == localStorage[key]
         IN  (e.has /\ e.text \notin ParamValues[key]) => params[key] = "none"
    /\ \A key \in {"interest", "pathways", "hidden"} :
         LET e == localStorage[key]
             v == IF key = "interest" THEN params[key]
                  ELSE IF key = "pathways" THEN pathways ELSE hidden
         IN  (e.has /\ (e.text.open # "[" \/ e.text.close # "]")) => v = <<>>

\* the interiors of two boxes meet
BoxesMeet(a, b) == a.x < b.X /\ b.x < a.X /\ a.y < b.Y /\ b.y < a.Y

\* C25: after a settle pass (of the initial layout, of a re-route for a
\* visual parameter, of a drag frame) no two boxes of the nodes of the layout
\* overlap, and no two boxes of a rendered diagram do.
C25_NoOverlapAfterSettle ==
  /\ ("settle" \in log /\ layout # 0) =>
       \A i, j \in 1..Len(builds[layout].nodes) :
         LET n == builds[layout].nodes[i].bounds
             m == builds[layout].nodes[j].bounds
         IN  i # j => n.def /\ m.def /\ ~BoxesMeet(n, m)
  /\ log = {"route", "render"} =>
       \A i, j \in 1..Len(display.boxes) :
         i # j => ~BoxesMeet(display.boxes[i], display.boxes[j])

\* a node was dragged onto the place of another, and the settle pass of that
\* frame has moved the other away from where it was rendered
C25_Witness ==
  /\ log = {"settle"}
  /\ gestures["p1"].on
  /\ \E j \in 1..Len(builds[layout].nodes) :
       LET m == builds[layout].nodes[j]
           d == builds[layout].nodes[gestures["p1"].i]
       IN  /\ j # gestures["p1"].i
           /\ cachedPositions[m.stId].def
           /\ cachedPositions[m.stId].at = Point(d.x, d.y)
           /\ Point(m.x, m.y) # Point(d.x, d.y)

\* a point lies on the boundary of a box
OnBoundary(p, B) ==
  \/ p.x \in {B.x, B.X} /\ B.y <= p.y /\ p.y <= B.Y
  \/ p.y \in {B.y, B.Y} /\ B.x <= p.x /\ p.x <= B.X

\* the segment between two points of a route enters the interior of a box
SegmentEnters(p, q, B) ==
  \E x \in (IF p.x < q.x THEN p.x..q.x ELSE q.x..p.x) :
    \E y \in (IF p.y < q.y THEN p.y..q.y ELSE q.y..p.y) :
      B.x < x /\ x < B.X /\ B.y < y /\ y < B.Y

\* C26: in a rendered diagram the route of every edge starts on the
\* boundary of the rendered box of the edge's source, ends on the boundary of
\* the rendered box of its target, and enters the box of no third node.
C26_RoutesJoinBoxesAndAvoidOthers ==
  log = {"route", "render"} =>
    \A l \in 1..Len(display.routes) :
      LET link == builds[layout].links[l]
          path == display.routes[l].path
      IN  /\ OnBoundary(path[1], display.boxes[link.source])
          /\ OnBoundary(path[Len(path)], display.boxes[link.target])
          /\ \A k \in 1..Len(display.boxes) : \A t \in 1..(Len(path) - 1) :
               k \notin {link.source, link.target} =>
                 ~SegmentEnters(path[t], path[t + 1], display.boxes[k])

\* three nodes are rendered and an edge is routed around a corner
C26_Witness ==
  /\ log = {"route", "render"}
  /\ Len(display.boxes) >= 3
  /\ \E l \in 1..Len(display.routes) :
       LET path == display.routes[l].path
       IN  /\ Len(path) = 3
           /\ path[1].x # path[3].x
           /\ path[1].y # path[3].y

C28_DragFlagAndFrames ==
  [][ /\ \A ptr \in Pointers :
           LET g == gestures[ptr]
               c == builds[g.b].closure
           IN  (g.on /\ gestures'[ptr].on) =>
                 /\ (~c.didDrag /\ builds'[g.b].closure.didDrag) =>
                      \E q \in Pointers : \E e \in MovePts :
                        LET p == getDragPos(c, e, params.nodeSize)
                        IN  /\ drag(q, e)
                            /\ gestures[q].b = g.b
                            /\ \/ Abs(p.x - c.nodeStart.x) >= 5
                               \/ Abs(p.y - c.nodeStart.y) >= 5
                 /\ (c.didDrag /\ ~builds'[g.b].closure.didDrag) =>
                      \E q \in Pointers : ~gestures[q].on /\ gestures'[q].on
      /\ \A ptr \in Pointers : \A e \in MovePts :
           LET g == gestures[ptr]
               d == builds[g.b].nodes[g.i]
               p == getDragPos(builds[g.b].closure, e, params.nodeSize)
           IN  \/ ~g.on
               \/ /\ builds'[g.b].closure.didDrag
                  /\ p # Point(d.x, d.y)
               \/ /\ builds'[g.b].nodes = builds[g.b].nodes
                  /\ display' = display
                  /\ micro' = micro
                  /\ "settle" \notin log'
               \/ ~drag(ptr, e)
    ]_vars

\* a gesture has moved its node and its flag is set, and a later move of the
\* same gesture to where the node is has left the diagram as it was
C28_Witness ==
  LET g == gestures["p1"]
      d == builds[g.b].nodes[g.i]
  IN  /\ g.on
      /\ ~gestures["p2"].on
      /\ builds[g.b].closure.didDrag
      /\ Point(d.x, d.y) # g.n0
      /\ micro = <<>>
      /\ log = {}

\* C29: when updateGridify resumes with the graph it awaited, the nodes of
\* that graph are the nodes of the current layout, and each of them has the
\* bounds the layout gave it.
C29_RerouteReadsLaidOutNodes ==
  (/\ micro # <<>>
   /\ Head(micro).kind = "gridify"
   /\ builds[Head(micro).b].status = "resolved") =>
    /\ Head(micro).b = layout
    /\ \A i \in 1..Len(builds[Head(micro).b].nodes) :
         builds[Head(micro).b].nodes[i].bounds.def

\* nothing is left to run or to arrive, pathwayObjects was evaluated at most
\* once more than there are entries, and the diagram shows the graph of the
\* latest evaluation
Quiescent ==
  /\ micro = <<>>
  /\ \A f \in 1..Len(fetches) : fetches[f].status = "resolved"
  /\ \A b \in 1..Len(builds) : builds[b].status = "resolved"
  /\ Len(fetches) <= 1 + Len(pathways)
  /\ \A k \in 1..Len(pathways) : pathways[k].state # "hide" => pathways[k].named
  /\ layout # 0
  /\ LET shown == builds[layout].nodes
         latest == builds[Len(builds)].nodes
     IN  /\ Len(display.boxes) = Len(shown)
         /\ \A i \in 1..Len(shown) : display.boxes[i].def
         /\ [i \in 1..Len(shown) |-> shown[i].stId]
              = [i \in 1..Len(latest) |-> latest[i].stId]

\* C30: after a pathway was registered by its id, the chain of the name
\* fetch, the write of the display name and the new evaluation of
\* pathwayObjects comes to rest: from some point on nothing is fetched or run
\* any more, and one graph, that of the last evaluation, is displayed.
C30_NameFetchComesToRest == <>[]Quiescent

\* the name has arrived, pathwayObjects was evaluated a second time, and the
\* diagram of the pathway is rendered
C30_Witness ==
  /\ Quiescent
  /\ Len(fetches) = 2
  /\ Len(display.boxes) = 2
  /\ log = {"route", "render"}

\* ------------------------------------------------------------------------
\* The loop of lines 164-176 for one entry of pathwayObjects, on its own:
\* the list of event ids has any length up to MaxIds, and `fetches` holds
\* the one evaluation with the loop's locals (eventIds, i, fullResults),
\* the bodies of the requests sent so far and whether a response is awaited.
\* ------------------------------------------------------------------------
MaxIds == 41       \* length of the list of contained events

\* eventIds.slice(i, chunkSize): the end taken for a length, for comparison
\* with slice
sliceOfLength(list, start, end) ==
  SubSeq(list, start + 1, IF end - start < Len(list) THEN end - start ELSE Len(list))

\* Array.prototype.slice(start, end) of line 169, for 0 <= start <= end: the
\* elements at the 0-based positions start .. end - 1 that the list has
slice(list, start, end) ==
  SubSeq(list, start + 1, IF end < Len(list) THEN end ELSE Len(list))

ChunkInit ==
  /\ hidden = <<>>
  /\ BuilderAtRest
  /\ pathways = <<>>
  /\ params = <<>>
  /\ \E n \in 0..MaxIds : \E p \in PathwayIds :
       fetches = << [ pathway |-> p, eventIds |-> [k \in 1..n |-> k], i |-> 0,
                      awaiting |-> FALSE, requests |-> <<>>, fullResults |-> <<>> ] >>
  /\ builds = <<>>
  /\ micro = <<>>
  /\ dirty = "clean"
  /\ tracksGraph = FALSE
  /\ layout = 0
  /\ display = <<>>
  /\ cachedPositions = <<>>
  /\ popup = <<>>
  /\ showLabel = <<>>
  /\ gestures = <<>>
  /\ log = {}
  /\ acts = 0
  /\ localStorage = <<>>

\* lines 168-173: the loop test, the slice and the POST of its ids
ChunkRequest ==
  /\ ~fetches[1].awaiting
  /\ fetches[1].i < Len(fetches[1].eventIds)
  /\ LET chunk == slice(fetches[1].eventIds, fetches[1].i, fetches[1].i + chunkSize)
     IN  fetches' = [fetches EXCEPT ![1].requests = Append(@, chunk),
                                    ![1].awaiting = TRUE]
  /\ UNCHANGED <<hidden, builderVars, pathways, params, builds, micro, dirty,
                 tracksGraph, layout, display, cachedPositions, popup, showLabel,
                 gestures, log, acts, localStorage>>

\* lines 174 and 168: the response holds the record of every id asked for;
\* each is copied with the pathway added ({...event, pathway}) and pushed,
\* and i advances
ChunkResponse ==
  /\ fetches[1].awaiting
  /\ LET asked == fetches[1].requests[Len(fetches[1].requests)]
         json == [k \in 1..Len(asked) |-> [stId |-> asked[k]]]
         spread(event) == [f \in DOMAIN event \cup {"pathway"} |->
                             IF f = "pathway" THEN fetches[1].pathway ELSE event[f]]
     IN  fetches' = [fetches EXCEPT
                       ![1].fullResults = @ \o [k \in 1..Len(json) |-> spread(json[k])],
                       ![1].i = @ + chunkSize,
                       ![1].awaiting = FALSE]
  /\ UNCHANGED <<hidden, builderVars, pathways, params, builds, micro, dirty,
                 tracksGraph, layout, display, cachedPositions, popup, showLabel,
                 gestures, log, acts, localStorage>>

SpecChunks == ChunkInit /\ [][ChunkRequest \/ ChunkResponse]_vars

\* the concatenation of a list of lists, in order
RECURSIVE Flat(_)
Flat(lists) == IF lists = <<>> THEN <<>> ELSE Head(lists) \o Flat(Tail(lists))

\* C31: the requests of the loop carry consecutive slices of the id list,
\* each of 1 to 20 ids, whose concatenation in order is a prefix of the list
\* at every moment and the whole list once the loop has ended; the loop then
\* has sent ceil(n/20) requests (none for an empty list), and every record
\* pushed to fullResults carries the pathway of the loop.
C31_ChunksCoverListInOrder ==
  LET L == fetches[1]
      n == Len(L.eventIds)
      sent == Flat(L.requests)
  IN  /\ \A r \in 1..Len(L.requests) :
             Len(L.requests[r]) >= 1 /\ Len(L.requests[r]) <= chunkSize
      /\ \A r \in 1..(Len(L.requests) - 1) : Len(L.requests[r]) = chunkSize
      /\ Len(sent) <= n
      /\ sent = SubSeq(L.eventIds, 1, Len(sent))
      /\ (~L.awaiting /\ L.i >= n) =>
             /\ sent = L.eventIds
             /\ Len(L.requests) = (n + chunkSize - 1) \div chunkSize
             /\ [k \in 1..Len(L.fullResults) |-> L.fullResults[k].stId] = L.eventIds
      /\ \A k \in 1..Len(L.fullResults) : L.fullResults[k].pathway = L.pathway

\* a list of 41 ids has been fetched with three requests of 20, 20 and 1
C31_Witness ==
  /\ Len(fetches) = 1
  /\ "eventIds" \in DOMAIN fetches[1]
  /\ Len(fetches[1].eventIds) = 41
  /\ ~fetches[1].awaiting
  /\ fetches[1].i >= 41
  /\ Len(fetches[1].requests) = 3
  /\ Len(fetches[1].requests[3]) = 1
  /\ Len(fetches[1].fullResults) = 41

\* ------------------------------------------------------------------------
\* The two lists under every action that changes them.  The run starts on
\* what an earlier run left in the storage: a visibility list of up to two
\* entries for the nodes of P1, one entry per node (among them the empty
\* list), and a pathway list that is empty or holds P1.
\* ------------------------------------------------------------------------
MaxListActs == 4   \* user events in one run on the lists

ListsInit ==
  /\ hidden \in { h \in HiddenLists :
                    /\ \A k \in 1..Len(h) : h[k].stId \in {"r1", "a"}
                    /\ \A k, m \in 1..Len(h) : h[k].stId = h[m].stId => k = m }
  /\ BuilderAtRest
  /\ \E pw \in {<<>>, <<PathwayItem(1, "P1", "show", FALSE)>>,
                  <<PathwayItem(1, "P1", "show", TRUE)>>} : SessionInitWith(pw)

ListsNext ==
  \/ \E f \in 1..Len(fetches) : \E j \in 1..Len(fetches[f].sel) : NameResolved(f, j)
  \/ \E f \in 1..Len(fetches) : \E j \in 1..Len(fetches[f].sel) : ContainedResolved(f, j)
  \/ \E f \in 1..Len(fetches) : \E j \in 1..Len(fetches[f].sel) : BatchResolved(f, j)
  \/ RunEffect
  \/ GraphLoop
  \/ LayoutRun
  \/ GridifyRun
  \/ /\ AllResolved
     /\ acts < MaxListActs
     /\ \/ \E i \in 1..Len(display.boxes) : dragStart("p1", i, Origin)
        \/ dragEnd("p1")
        \/ hideNode
        \/ splitNode
        \/ \E k \in 1..Len(hidden) : ListToggle(k)
        \/ \E k \in 1..Len(hidden) : RemoveHidden(k)
        \/ \E p \in PathwayIds : addPathway(p)
        \/ \E p \in PathwayIds : searchPathways(p)
        \/ \E k \in 1..Len(pathways) : TogglePathway(k)
        \/ \E k \in 1..Len(pathways) : RemovePathway(k)
        \/ RemoveAllPathways

SpecLists == ListsInit /\ [][ListsNext]_vars

\* C32: when the visibility list has an entry for the popup's node, Hide
\* sets that entry's state to hide whatever it was (a list whose entry is
\* hidden already is left as it is), and Split sets it to show if it was
\* split and to split if it was show or hide; the list keeps its length,
\* and every other entry and every other field stay as they were.
C32_PopupActsOnExistingEntry ==
  [][ LET node == popup.currentNode
          k == FoundAt(hidden, node.stId)
          others == /\ Len(hidden') = Len(hidden)
                    /\ \A m \in 1..Len(hidden) :
                         /\ m # k => hidden'[m] = hidden[m]
                         /\ hidden'[m].stId = hidden[m].stId
                         /\ hidden'[m].type = hidden[m].type
      IN  (popup.show /\ ~popup'.show /\ node # NoNode /\ k # 0) =>
            /\ hideNode =>
                 /\ others
                 /\ hidden'[k].state = "hide"
                 /\ hidden[k].state = "hide" => hidden' = hidden
            /\ splitNode =>
                 /\ others
                 /\ hidden'[k].state = IF hidden[k].state = "split" THEN "show"
                                       ELSE "split" ]_vars

\* Hide has just acted on the entry of a, which the run started with, next
\* to the entry of r1, which kept its state
C32_Witness ==
  /\ Len(hidden) = 2
  /\ hidden[1] = ReactomeItem("r1", "show")
  /\ hidden[2] = ReactomeItem("a", "hide")
  /\ popup.currentNode.stId = "a"
  /\ ~popup.show
  /\ acts = 3
  /\ localStorage.hidden.text = stringify(hidden)
  /\ micro # <<>>

\* C33: the visibility list never holds two entries with the same node id,
\* whatever popup Hide, popup Split, list toggles and removals have done to
\* a list that had at most one entry per node (the empty list among them).
C33_OneEntryPerNode ==
  \A k, m \in 1..Len(hidden) : hidden[k].stId = hidden[m].stId => k = m

\* Hide has pushed an entry for r1 behind the entry of a, after one more
\* user event while the popup was open
C33_Witness ==
  /\ hidden = <<ReactomeItem("a", "split"), ReactomeItem("r1", "hide")>>
  /\ ~popup.show
  /\ popup.currentNode.stId = "r1"
  /\ acts = 4

\* C34: with Split offered for compound nodes only, no entry of the
\* visibility list whose type is not compound and no entry of the pathway
\* list is ever in state split, whatever popup Hide and Split, the list
\* toggles, addPathway, searchPathways and the removals have done.
C34_SplitOnlyOnCompounds ==
  /\ \A k \in 1..Len(hidden) : hidden[k].type # "compound" => hidden[k].state # "split"
  /\ \A k \in 1..Len(pathways) : pathways[k].state # "split"

\* Split has pushed a split entry for the compound a behind the entry of
\* the reaction r1, and a search has then registered P2
C34_Witness ==
  /\ hidden = <<ReactomeItem("r1", "show"), ReactomeItem("a", "split")>>
  /\ Len(pathways) = 2
  /\ pathways[2].stId = "P2"
  /\ pathways[2].state = "hide"
  /\ pathways[2].named
  /\ acts = 4

\* the nodes of type event that carry the display name of the record at
\* position k of the list
ReactionNodesOf(k) ==
  { i \in NodeIdx : /\ graph.nodes[i].type = "event"
                    /\ graph.nodes[i].displayName = events[k].displayName }

\* C35: in the graph built for any list of reaction records and any
\* visibility list, both ends of every link are nodes of the graph, exactly
\* one of the two ends is the reaction node of the record whose visit
\* pushed the link, and neither end is the node of an item the list hides,
\* nor was the link pushed for a record that was skipped.
C35_EdgesJoinReactionAndCompound ==
  ~graph.threw =>
    \A l \in LinkIdx :
      LET src == graph.links[l].source
          tgt == graph.links[l].target
          k == graph.linkEv[l]
      IN  /\ src \in NodeIdx
          /\ tgt \in NodeIdx
          /\ (src \in ReactionNodesOf(k)) # (tgt \in ReactionNodesOf(k))
          /\ getHiddenNode(hidden, graph.nodes[src].stId).state # "hide"
          /\ getHiddenNode(hidden, graph.nodes[tgt].stId).state # "hide"
          /\ k \notin graph.skipped

\* the links that have the node x at one of their ends
LinksAt(x) ==
  { l \in LinkIdx : graph.links[l].source = x \/ graph.links[l].target = x }

\* C36: in a built graph every node instance of a compound whose visibility
\* state is split is an end of exactly one link, and that link was pushed
\* by the visit that pushed the node.
C36_SplitInstanceHasOneEdge ==
  ~graph.threw =>
    \A x \in CompoundNodes :
      StateOf(graph.nodes[x].stId) = "split" =>
        /\ Cardinality(LinksAt(x)) = 1
        /\ \A l \in LinksAt(x) : graph.linkEv[l] = graph.nodeEv[x]

====
